---- MODULE Spec2Model ----
(***************************************************************************)
(* A model of the approximate structural analysis engine of               *)
(* Engineering_Hub: src/tools/fea_solver.py (mesh quality, boundary node  *)
(* locator, analytical estimator, cross-mesh field transfer) and the      *)
(* result interpretation of src/agents/analysis_agent.py.                 *)
(*                                                                         *)
(* The engine is a set of synchronous functions.  The state is what the   *)
(* caller holds between calls: the mesh arrays, the arrays of the field   *)
(* transfer, the last call made and the record it returned.  Arrays are   *)
(* sequences read with the source's 0-based indices (At).                 *)
(***************************************************************************)
EXTENDS Integers, Sequences, FiniteSets, TLC

VARIABLES
    node_coords,    \* the caller's (N,3) node array
    elements,       \* the caller's (M,3) element index array
    stl_vertices,   \* the vertices of the rendering mesh (visualize_stress_web)
    stress_field,   \* the per-node stress field of the FEAResult being shown
    call,           \* the call being made: [op |-> name, ...arguments]
    ret,            \* what the call returned, None while it is not made
    jobs            \* api/main.py: the in-memory table of job results

vars == <<node_coords, elements, stl_vertices, stress_field, call, ret, jobs>>

None == [k |-> "None"]
NoCall == [op |-> "none"]

\* the job ids a request can be given (the first 8 characters of a uuid4)
JobIds == {"1f0c9a2e", "7b3d55aa", "e4410c9f"}

\* api/main.py line 64: jobs = {}; a key that is absent holds None
NoJobs == [id \in JobIds |-> None]

(***************************************************************************)
(* Floats.  A Python float is modelled as an exact rational n/d (d > 0),  *)
(* +infinity or NaN; comparisons with NaN are false, as in IEEE 754.      *)
(***************************************************************************)
Num(n, d) == [k |-> "num", n |-> n, d |-> d]
PosInf == [k |-> "inf"]
NaN == [k |-> "nan"]
IsNum(a) == a.k = "num"

Lt(a, b) ==
    CASE a.k = "nan" \/ b.k = "nan" -> FALSE
      [] a.k = "inf" -> FALSE
      [] b.k = "inf" -> TRUE
      [] OTHER -> a.n * b.d < b.n * a.d

Gt(a, b) == Lt(b, a)

Ge(a, b) == a.k # "nan" /\ b.k # "nan" /\ ~Lt(a, b)

\* a / b for a finite a and a b that is not zero
Div(a, b) ==
    CASE b.k = "nan" -> NaN
      [] b.k = "inf" -> Num(0, 1)
      [] b.n > 0 -> Num(a.n * b.d, a.d * b.n)
      [] OTHER -> Num(-(a.n * b.d), a.d * (-b.n))

\* the rational n/d as a comparable value (used by the properties)
SameNum(a, n, d) == IsNum(a) /\ a.n * d = n * a.d

(***************************************************************************)
(* Bounds of the explored inputs.                                          *)
(***************************************************************************)
StressScale == 2        \* max_stress is explored in steps of 1/StressScale MPa
MaxStressN == 560       \* largest explored max_stress, in those steps
MinStressN == 2         \* most negative explored max_stress, in those steps
MaxDisp == 3            \* largest explored max_displacement (mm)
MaxLimit == 2           \* largest explored displacement_limit (mm)

(***************************************************************************)
(* analysis_agent.py: the material library and interpret_results.         *)
(***************************************************************************)
AGENT_MATERIALS ==
    [aluminum_6061 |-> [name |-> "Aluminum 6061-T6", yield_strength |-> 276],
     steel_304     |-> [name |-> "Stainless Steel 304", yield_strength |-> 215],
     pla           |-> [name |-> "PLA (3D Print)", yield_strength |-> 50],
     petg          |-> [name |-> "PETG (3D Print)", yield_strength |-> 28],
     abs           |-> [name |-> "ABS (3D Print)", yield_strength |-> 40],
     nylon         |-> [name |-> "Nylon PA12", yield_strength |-> 75]]

\* line 418: the guard is max_stress > 0, false for zero, negatives and NaN
InterpSafetyFactor(max_stress, material) ==
    IF Gt(max_stress, Num(0, 1))
    THEN Div(Num(material.yield_strength, 1), max_stress)
    ELSE PosInf

\* BandStatus with the 1.5 boundary put in the lower band (<= for <)
BandStatus_le(safety_factor) ==
    IF Lt(safety_factor, Num(1, 1))
    THEN [status |-> "FAIL", recommendations |-> <<"CRITICAL", "IncreaseThickness">>]
    ELSE IF ~Gt(safety_factor, Num(3, 2))
    THEN [status |-> "FAIL", recommendations |-> <<"Insufficient", "IncreaseWall">>]
    ELSE IF Lt(safety_factor, Num(2, 1))
    THEN [status |-> "WARN", recommendations |-> <<"Low", "NonCriticalOnly">>]
    ELSE IF Lt(safety_factor, Num(4, 1))
    THEN [status |-> "PASS", recommendations |-> <<"Good">>]
    ELSE [status |-> "PASS", recommendations |-> <<"High", "Optimize">>]

\* lines 421-440: the if/elif chain on the safety factor
BandStatus(safety_factor) ==
    IF Lt(safety_factor, Num(1, 1))
    THEN [status |-> "FAIL", recommendations |-> <<"CRITICAL", "IncreaseThickness">>]
    ELSE IF Lt(safety_factor, Num(3, 2))
    THEN [status |-> "FAIL", recommendations |-> <<"Insufficient", "IncreaseWall">>]
    ELSE IF Lt(safety_factor, Num(2, 1))
    THEN [status |-> "WARN", recommendations |-> <<"Low", "NonCriticalOnly">>]
    ELSE IF Lt(safety_factor, Num(4, 1))
    THEN [status |-> "PASS", recommendations |-> <<"Good">>]
    ELSE [status |-> "PASS", recommendations |-> <<"High", "Optimize">>]

\* Python truth of an Optional[float]: None and 0 are false, NaN is true
Truthy(x) == x # None /\ ~(IsNum(x) /\ x.n = 0)

\* DisplacementCheck without the test status == "PASS"
DisplacementCheck_always(band, max_displacement, displacement_limit) ==
    IF Truthy(max_displacement) /\ Gt(max_displacement, displacement_limit)
    THEN [status |-> "WARN",
          recommendations |-> band.recommendations \o <<"DisplacementExceeds", "IncreaseStiffness">>]
    ELSE band

\* lines 442-447: the displacement check
DisplacementCheck(band, max_displacement, displacement_limit) ==
    IF Truthy(max_displacement) /\ Gt(max_displacement, displacement_limit)
    THEN [status |-> IF band.status = "PASS" THEN "WARN" ELSE band.status,
          recommendations |-> band.recommendations \o <<"DisplacementExceeds", "IncreaseStiffness">>]
    ELSE band

interpret_results(max_stress, material, max_displacement, displacement_limit) ==
    LET safety_factor == InterpSafetyFactor(max_stress, material)
        out == DisplacementCheck(BandStatus(safety_factor), max_displacement, displacement_limit)
    IN  [status |-> out.status, safety_factor |-> safety_factor,
         recommendations |-> out.recommendations]

Stresses == {Num(n, StressScale) : n \in (-MinStressN)..MaxStressN} \cup {PosInf, NaN}
Displacements == {None} \cup {Num(n, 1) : n \in (-1)..MaxDisp}
Limits == {Num(n, 1) : n \in (-1)..MaxLimit}

InterpretResults ==
    /\ call.op = "interpret_results"
    /\ ret = None
    /\ ret' = interpret_results(call.max_stress, AGENT_MATERIALS[call.material],
                                call.max_displacement, call.displacement_limit)
    /\ UNCHANGED <<node_coords, elements, stl_vertices, stress_field, call, jobs>>

\* the arguments of one call of interpret_results, not yet made
InitInterp ==
    /\ node_coords = <<>>
    /\ elements = <<>>
    /\ stl_vertices = <<>>
    /\ stress_field = <<>>
    /\ call \in [op : {"interpret_results"}, max_stress : Stresses,
                  material : DOMAIN AGENT_MATERIALS,
                  max_displacement : Displacements, displacement_limit : Limits]
    /\ ret = None
    /\ jobs = NoJobs

NextInterp == InterpretResults

SpecInterp == InitInterp /\ [][NextInterp]_vars

(***************************************************************************)
(* fea_solver.py: find_hole_nodes, the boundary node locator.             *)
(* Coordinates and landmark centers are explored on the integers and the  *)
(* radius on the multiples of 1/RadiusScale, where np.sqrt(d2) < r/s is   *)
(* decided exactly by d2*s*s < r*r.  hole_radius below is the numerator.  *)
(***************************************************************************)
MaxCoord == 1           \* node and landmark coordinates are in 0..MaxCoord
MaxHoles == 2           \* at most this many landmarks in one call
RadiusScale == 3        \* hole_radius is explored in steps of 1/RadiusScale
MaxRadiusN == 6         \* hole_radius is in -1..MaxRadiusN steps

At(a, i) == a[i + 1]    \* a[i] of the source, 0-based

\* np.sqrt(d2) < r / RadiusScale for integers d2 >= 0 and r
SqrtLt(d2, r) == r > 0 /\ d2 * RadiusScale * RadiusScale < r * r

\* HoleMask with <= for < in the radius test
HoleMask_le(coords, cx, cy, hole_radius, z_range) ==
    [i \in 1..Len(coords) |->
        LET d2 == (coords[i][1] - cx) * (coords[i][1] - cx)
                    + (coords[i][2] - cy) * (coords[i][2] - cy)
            mask == SqrtLt(d2, hole_radius)
                      \/ (hole_radius >= 0
                          /\ d2 * RadiusScale * RadiusScale = hole_radius * hole_radius)
        IN  IF z_range # None
            THEN mask /\ (coords[i][3] >= z_range.z_min /\ coords[i][3] <= z_range.z_max)
            ELSE mask]

\* HoleMask with the upper end of z_range exclusive
HoleMask_zopen(coords, cx, cy, hole_radius, z_range) ==
    [i \in 1..Len(coords) |->
        LET d2 == (coords[i][1] - cx) * (coords[i][1] - cx)
                    + (coords[i][2] - cy) * (coords[i][2] - cy)
            mask == SqrtLt(d2, hole_radius)
        IN  IF z_range # None
            THEN mask /\ (coords[i][3] >= z_range.z_min /\ coords[i][3] < z_range.z_max)
            ELSE mask]

\* lines 248-253: the boolean mask of one landmark over all nodes
HoleMask(coords, cx, cy, hole_radius, z_range) ==
    [i \in 1..Len(coords) |->
        LET d2 == (coords[i][1] - cx) * (coords[i][1] - cx)
                    + (coords[i][2] - cy) * (coords[i][2] - cy)
            mask == SqrtLt(d2, hole_radius)
        IN  IF z_range # None
            THEN mask /\ (coords[i][3] >= z_range.z_min /\ coords[i][3] <= z_range.z_max)
            ELSE mask]

\* line 255: np.where(mask)[0].tolist(), the true positions in ascending order
RECURSIVE WhereUpTo(_, _)
WhereUpTo(mask, n) ==
    IF n = 0 THEN <<>>
    ELSE IF mask[n] THEN Append(WhereUpTo(mask, n - 1), n - 1)
         ELSE WhereUpTo(mask, n - 1)

Where(mask) == WhereUpTo(mask, Len(mask))

\* find_hole_nodes that appends a landmark's list only when it is not empty
RECURSIVE find_hole_nodes_skip(_, _, _, _)
find_hole_nodes_skip(coords, hole_centers, hole_radius, z_range) ==
    IF hole_centers = <<>> THEN <<>>
    ELSE LET k == Len(hole_centers)
             c == hole_centers[k]
             indices == Where(HoleMask(coords, c[1], c[2], hole_radius, z_range))
             before == find_hole_nodes_skip(coords, SubSeq(hole_centers, 1, k - 1),
                                            hole_radius, z_range)
         IN  IF indices = <<>> THEN before ELSE Append(before, indices)

\* lines 244-258: one list of node indices per landmark, in landmark order
RECURSIVE find_hole_nodes(_, _, _, _)
find_hole_nodes(coords, hole_centers, hole_radius, z_range) ==
    IF hole_centers = <<>> THEN <<>>
    ELSE LET k == Len(hole_centers)
             c == hole_centers[k]
             indices == Where(HoleMask(coords, c[1], c[2], hole_radius, z_range))
         IN  Append(find_hole_nodes(coords, SubSeq(hole_centers, 1, k - 1),
                                    hole_radius, z_range),
                    indices)

FindHoleNodes ==
    /\ call.op = "find_hole_nodes"
    /\ ret = None
    /\ ret' = [hole_nodes |-> find_hole_nodes(node_coords, call.hole_centers,
                                             call.hole_radius, call.z_range)]
    /\ UNCHANGED <<node_coords, elements, stl_vertices, stress_field, call, jobs>>

Coords == 0..MaxCoord

\* every point of the coordinate grid once, in lexicographic order
RECURSIVE GridFrom(_)
GridFrom(n) ==
    LET w == MaxCoord + 1
    IN  IF n = w * w * w THEN <<>>
        ELSE <<<<n \div (w * w), (n \div w) % w, n % w>>>> \o GridFrom(n + 1)

GridNodes == GridFrom(0)

SeqsUpTo(S, n) == UNION {[1..m -> S] : m \in 0..n}

\* a mesh with a node at every grid point, and the arguments of one call of
\* find_hole_nodes on it
InitLocate ==
    /\ node_coords = GridNodes
    /\ elements = <<>>
    /\ stl_vertices = <<>>
    /\ stress_field = <<>>
    /\ call \in [op : {"find_hole_nodes"},
                 hole_centers : SeqsUpTo(Coords \X Coords, MaxHoles),
                 hole_radius : (-1)..MaxRadiusN,
                 z_range : {None} \cup [k : {"tuple"}, z_min : Coords, z_max : Coords]]
    /\ ret = None
    /\ jobs = NoJobs

NextLocate == FindHoleNodes

SpecLocate == InitLocate /\ [][NextLocate]_vars

(***************************************************************************)
(* fea_solver.py: find_nearest_numpy and the stress transfer of           *)
(* visualize_stress_web.  Points are integer triples, so the squared      *)
(* distances are exact.  The loop carries the arrays it works on, so that *)
(* a write to an argument would show in the caller's arrays.              *)
(***************************************************************************)
MaxPts == 2             \* at most this many source points
MaxVal == 1             \* the explored stress values start in 0..MaxVal

\* SqDist that sums over x and y only
SqDist_xy(p, q) ==
    (p[1] - q[1]) * (p[1] - q[1]) + (p[2] - q[2]) * (p[2] - q[2])

\* line 439: np.sum((p - q) ** 2) over the three coordinates
SqDist(p, q) ==
    (p[1] - q[1]) * (p[1] - q[1]) + (p[2] - q[2]) * (p[2] - q[2])
        + (p[3] - q[3]) * (p[3] - q[3])

\* reference_points - q, a new array
Sub(points, q) == [j \in 1..Len(points) |-> <<points[j][1] - q[1], points[j][2] - q[2],
                                               points[j][3] - q[3]>>]

\* ArgMin that keeps the last of several minima
RECURSIVE ArgMinLastUpTo(_, _)
ArgMinLastUpTo(d, n) ==
    IF n = 1 THEN 0
    ELSE LET best == ArgMinLastUpTo(d, n - 1)
         IN  IF d[n] <= At(d, best) THEN n - 1 ELSE best

ArgMin_last(d) == ArgMinLastUpTo(d, Len(d))

\* line 440: np.argmin over a non-empty array, the first of several minima
RECURSIVE ArgMinUpTo(_, _)
ArgMinUpTo(d, n) ==
    IF n = 1 THEN 0
    ELSE LET best == ArgMinUpTo(d, n - 1)
         IN  IF d[n] < At(d, best) THEN n - 1 ELSE best

ArgMin(d) == ArgMinUpTo(d, Len(d))

\* the loop body with reference_points -= q, an update in place
NearestStep_inplace(st, i) ==
    LET q == At(st.query_points, i)
        shifted == Sub(st.reference_points, q)
        distances == [j \in 1..Len(shifted) |-> SqDist(shifted[j], <<0, 0, 0>>)]
    IN  [st EXCEPT !.indices[i + 1] = ArgMin(distances), !.reference_points = shifted]

\* lines 437-440: the loop body for the query point of index i
NearestStep(st, i) ==
    LET q == At(st.query_points, i)
        shifted == Sub(st.reference_points, q)
        distances == [j \in 1..Len(shifted) |-> SqDist(shifted[j], <<0, 0, 0>>)]
    IN  [st EXCEPT !.indices[i + 1] = ArgMin(distances)]

RECURSIVE NearestLoop(_, _)
NearestLoop(st, n) == IF n = 0 THEN st ELSE NearestStep(NearestLoop(st, n - 1), n - 1)

\* lines 435-442: the frame of find_nearest_numpy when it returns
find_nearest_numpy(query_points, reference_points) ==
    NearestLoop([indices |-> [i \in 1..Len(query_points) |-> 0],
                 query_points |-> query_points,
                 reference_points |-> reference_points],
                Len(query_points))

\* line 464: result.stress_field[indices], a new array
TakeAt(values, indices) == [i \in 1..Len(indices) |-> At(values, indices[i])]

\* lines 461-464 of visualize_stress_web: the field transfer
FieldTransfer ==
    /\ call.op = "transfer"
    /\ ret = None
    /\ jobs = NoJobs
    /\ LET f == find_nearest_numpy(stl_vertices, node_coords)
       IN  /\ stl_vertices' = f.query_points
           /\ node_coords' = f.reference_points
           /\ ret' = [indices |-> f.indices,
                      stress_per_stl_vertex |-> TakeAt(stress_field, f.indices)]
    /\ UNCHANGED <<elements, stress_field, call, jobs>>

\* the grid points of the plane y = 0
PlanePoints == {<<x, 0, z>> : x \in Coords, z \in Coords}

\* a result mesh of 1..MaxPts nodes in the plane y = 0 with its stress field
\* (one value per node), and the rendering mesh: none, every grid point, or
\* the same points
InitTransfer ==
    /\ node_coords \in UNION {[1..n -> PlanePoints] : n \in 1..MaxPts}
    /\ elements = <<>>
    /\ stl_vertices \in {<<>>, GridNodes, node_coords}
    /\ stress_field \in {[i \in 1..Len(node_coords) |-> a + b * (i - 1)] :
                            a \in 0..MaxVal, b \in 0..1}
    /\ call = [op |-> "transfer"]
    /\ ret = None
    /\ jobs = NoJobs

NextTransfer == FieldTransfer

SpecTransfer == InitTransfer /\ [][NextTransfer]_vars

(***************************************************************************)
(* Floating point for the mesh quality and the estimator.  A float is     *)
(* m * 2^e with a mantissa of FBits bits (a double carries 53), rounded   *)
(* to nearest-even after every operation, or zero, an infinity or NaN.    *)
(* Division follows numpy (x/0 is an infinity, 0/0 is NaN).  np.exp and   *)
(* np.arccos are evaluated by series in that arithmetic.                  *)
(***************************************************************************)
FBits == 12             \* bits of mantissa carried by a modelled float

NegInf == [k |-> "ninf"]

Fl(m, e) == [k |-> "f", m |-> m, e |-> e]
FZero == Fl(0, 0)
IsF(a) == a.k = "f"
Abs(n) == IF n < 0 THEN -n ELSE n
Sgn(n) == IF n < 0 THEN -1 ELSE IF n > 0 THEN 1 ELSE 0

RECURSIVE BitLen(_)
BitLen(n) == IF n = 0 THEN 0 ELSE 1 + BitLen(n \div 2)

\* q * 2^e with q of FBits bits, or q = 2^FBits after rounding up
Carry(sg, q, e) ==
    IF q = 2^FBits THEN Fl(sg * 2^(FBits - 1), e + 1) ELSE Fl(sg * q, e)

\* round-to-nearest-even of (q + r / 2^s) * 2^e
Round(sg, q, r, half, e) ==
    Carry(sg, IF r > half \/ (r = half /\ q % 2 = 1) THEN q + 1 ELSE q, e)

\* a * 2^e for a > 0 whose bit length exceeds FBits by s
Shift(sg, a, e, s) ==
    IF s <= 0 THEN Fl(sg * a * 2^(-s), e + s)
    ELSE Round(sg, a \div 2^s, a % 2^s, 2^(s - 1), e + s)

\* the float nearest to m * 2^e (ties to even), m any integer
Norm(m, e) ==
    IF m = 0 THEN FZero ELSE Shift(Sgn(m), Abs(m), e, BitLen(Abs(m)) - FBits)

FromInt(n) == Norm(n, 0)

FNeg(a) ==
    CASE a.k = "f" -> Fl(-a.m, a.e)
      [] a.k = "inf" -> NegInf
      [] a.k = "ninf" -> PosInf
      [] OTHER -> NaN

FAbs(a) ==
    CASE a.k = "f" -> Fl(Abs(a.m), a.e)
      [] a.k \in {"inf", "ninf"} -> PosInf
      [] OTHER -> NaN

\* sign of a value that is not NaN
FSign(a) ==
    CASE a.k = "f" -> Sgn(a.m)
      [] a.k = "inf" -> 1
      [] OTHER -> -1

FMul(a, b) ==
    CASE a.k = "nan" \/ b.k = "nan" -> NaN
      [] a.k = "f" /\ b.k = "f" -> Norm(a.m * b.m, a.e + b.e)
      [] FSign(a) * FSign(b) = 0 -> NaN
      [] FSign(a) * FSign(b) > 0 -> PosInf
      [] OTHER -> NegInf

\* sg * num / den rounded, for num, den > 0; the low bit is sticky
Quotient(sg, num, den, e) ==
    Norm(sg * (2 * (num \div den) + (IF num % den = 0 THEN 0 ELSE 1)), e)

\* numpy's division: x/0 is an infinity, 0/0 is NaN
FDiv(a, b) ==
    CASE a.k = "nan" \/ b.k = "nan" -> NaN
      [] a.k = "f" /\ b.k = "f" ->
            IF b.m = 0
            THEN (IF a.m = 0 THEN NaN ELSE IF a.m > 0 THEN PosInf ELSE NegInf)
            ELSE Quotient(Sgn(a.m) * Sgn(b.m), Abs(a.m) * 2^(FBits + 2), Abs(b.m),
                          a.e - b.e - FBits - 3)
      [] a.k = "f" -> FZero
      [] b.k = "f" -> IF FSign(a) * (IF b.m < 0 THEN -1 ELSE 1) > 0 THEN PosInf ELSE NegInf
      [] OTHER -> NaN

\* hi + lo for finite nonzero values, hi.e >= lo.e
Aligned(hi, lo) ==
    IF hi.e - lo.e > FBits + 2 THEN hi ELSE Norm(hi.m * 2^(hi.e - lo.e) + lo.m, lo.e)

FAdd(a, b) ==
    CASE a.k = "nan" \/ b.k = "nan" -> NaN
      [] a.k = "f" /\ b.k = "f" ->
            IF a.m = 0 THEN b
            ELSE IF b.m = 0 THEN a
            ELSE IF a.e >= b.e THEN Aligned(a, b) ELSE Aligned(b, a)
      [] a.k = "f" -> b
      [] b.k = "f" -> a
      [] a.k = b.k -> a
      [] OTHER -> NaN

FSub(a, b) == FAdd(a, FNeg(b))

FLt(a, b) ==
    CASE a.k = "nan" \/ b.k = "nan" -> FALSE
      [] a.k = "inf" \/ b.k = "ninf" -> FALSE
      [] a.k = "ninf" \/ b.k = "inf" -> TRUE
      [] a.m = 0 \/ b.m = 0 -> Sgn(a.m) < Sgn(b.m)
      [] Sgn(a.m) # Sgn(b.m) -> a.m < b.m
      [] a.e # b.e -> IF a.m > 0 THEN a.e < b.e ELSE a.e > b.e
      [] OTHER -> a.m < b.m

FGt(a, b) == FLt(b, a)
FLe(a, b) == a.k # "nan" /\ b.k # "nan" /\ ~FLt(b, a)
FEq(a, b) == a.k # "nan" /\ b.k # "nan" /\ a = b

RECURSIVE IsqrtFrom(_, _, _)
IsqrtFrom(n, lo, hi) ==
    IF lo = hi THEN lo
    ELSE LET mid == (lo + hi + 1) \div 2
         IN  IF mid * mid <= n THEN IsqrtFrom(n, mid, hi) ELSE IsqrtFrom(n, lo, mid - 1)

Isqrt(n) == IsqrtFrom(n, 0, 46340)

\* sqrt(wide * 2^e) from r = floor(sqrt(wide)), e even
Root(wide, r, e) == Norm(2 * r + (IF r * r = wide THEN 0 ELSE 1), e \div 2 - 1)

\* sqrt(m * 2^e) with m widened by up bits, e - up even
Widened(m, e, up) == Root(m * 2^up, Isqrt(m * 2^up), e - up)

FSqrt(a) ==
    CASE a.k = "nan" \/ a.k = "ninf" -> NaN
      [] a.k = "inf" -> PosInf
      [] a.m = 0 -> FZero
      [] a.m < 0 -> NaN
      [] OTHER ->
            Widened(a.m, a.e, IF (a.e - (FBits + 2)) % 2 = 0 THEN FBits + 2 ELSE FBits + 3)

\* n / d for integers, d > 0
FromRat(n, d) == FDiv(FromInt(n), FromInt(d))
\* the largest integer <= a, for a finite a of moderate size
FFloor(a) ==
    IF a.e >= 0 THEN a.m * 2^a.e
    ELSE IF -a.e > FBits THEN (IF a.m < 0 THEN -1 ELSE 0)
    ELSE a.m \div 2^(-a.e)

Log2E == FromRat(3940, 2731)
Ln2 == FromRat(2731, 3940)

\* 1 + y(1 + y/2(1 + y/3(... (1 + y/n)))): the Taylor sum of e^y from term n down
RECURSIVE ExpHorner(_, _, _)
ExpHorner(y, n, acc) ==
    IF n = 0 THEN acc
    ELSE ExpHorner(y, n - 1, FAdd(FromInt(1), FMul(FDiv(y, FromInt(n)), acc)))

Scale2(p, k) == IF p.k = "f" THEN Fl(p.m, p.e + k) ELSE p

\* 2^k * e^((t - k) ln 2)
ExpSplit(t, k) == Scale2(ExpHorner(FMul(FSub(t, FromInt(k)), Ln2), 7, FromInt(1)), k)

\* e^x from t = x log2(e)
ExpOf(t) == ExpSplit(t, FFloor(t))

\* np.exp
FExp(x) ==
    CASE x.k = "nan" -> NaN
      [] x.k = "inf" -> PosInf
      [] x.k = "ninf" -> FZero
      [] OTHER -> ExpOf(FMul(x, Log2E))

\* np.clip(x, lo, hi)
FClip(x, lo, hi) ==
    IF x.k = "nan" THEN NaN ELSE IF FLt(x, lo) THEN lo ELSE IF FGt(x, hi) THEN hi ELSE x

\* np.arccos works to a precision beyond that of its result: here in fixed
\* point, in units of 2^-24, a number held as two limbs of 12 bits
Limb == 4096

QOne == Limb * Limb

\* a * b in units of 2^-24
MulQ(a, b) ==
    (a \div Limb) * (b \div Limb)
        + ((a \div Limb) * (b % Limb) + (a % Limb) * (b \div Limb)
               + ((a % Limb) * (b % Limb)) \div Limb) \div Limb

\* m * 2^e in units of 2^-24, for 0 <= m * 2^e <= 1
ToQ(m, e) ==
    IF e >= -24 THEN m * 2^(e + 24) ELSE IF e < -48 THEN 0 ELSE m \div 2^(-24 - e)

\* sqrt(w / 2^24) in units of 2^-24 from s0 = floor(sqrt(w)), 2^22 <= w <= 2^24
SqrtScaled(w, s0) == Limb * s0 + (Limb * (w - s0 * s0)) \div (2 * s0)

\* sqrt(v / 2^24) in units of 2^-24 through v * 4^k
SqrtUp(v, k) == SqrtScaled(v * 4^k, Isqrt(v * 4^k)) \div 2^k

SqrtQ(v) ==
    IF v = 0 THEN 0
    ELSE SqrtUp(v, IF BitLen(v) >= 23 THEN 0 ELSE (24 - BitLen(v)) \div 2)

\* c[i] + x (c[i+1] + x (...)) in units of 2^-24
RECURSIVE PolyQ(_, _, _)
PolyQ(c, x, i) == IF i = Len(c) THEN c[i] ELSE c[i] + MulQ(PolyQ(c, x, i + 1), x)

AcosCoef == <<26353589, -3600370, 1492820, -841785, 518280, -286691, 111906, -21181>>

\* arccos on [0, 1] in radians: sqrt(1 - x) * (a0 + a1 x + ... + a7 x^7)
AcosPos(x) == MulQ(SqrtQ(QOne - x), PolyQ(AcosCoef, x, 1))

PiQ == 52707179

Pi == FromRat(355, 113)

\* arccos on [-1, 1] in radians, rounded to a float
Acos(x) ==
    Norm(IF x.m < 0 THEN PiQ - AcosPos(ToQ(-x.m, x.e)) ELSE AcosPos(ToQ(x.m, x.e)), -24)

\* np.degrees(np.arccos(x)) for -1 <= x <= 1
FAcosDeg(x) == IF x.k = "nan" THEN NaN ELSE FMul(Acos(x), FDiv(FromInt(180), Pi))

(***************************************************************************)
(* fea_solver.py: calculate_mesh_quality.                                  *)
(***************************************************************************)
ToF3(p) == <<FromInt(p[1]), FromInt(p[2]), FromInt(p[3])>>

\* np.linalg.norm(p - q) for two points
Dist(p, q) ==
    LET dx == FSub(p[1], q[1])
        dy == FSub(p[2], q[2])
        dz == FSub(p[3], q[3])
    IN  FSqrt(FAdd(FAdd(FMul(dx, dx), FMul(dy, dy)), FMul(dz, dz)))

\* Python's max(a, b) and min(a, b): a unless b compares beyond it
PyMax(a, b) == IF FGt(b, a) THEN b ELSE a
PyMin(a, b) == IF FLt(b, a) THEN b ELSE a

RECURSIVE FSum(_)
FSum(q) == IF q = <<>> THEN FZero ELSE FAdd(FSum(SubSeq(q, 1, Len(q) - 1)), q[Len(q)])

\* np.mean of a non-empty list
FMean(q) == FDiv(FSum(q), FromInt(Len(q)))

RECURSIVE PyMaxSeq(_)
PyMaxSeq(q) == IF Len(q) = 1 THEN q[1] ELSE PyMax(PyMaxSeq(SubSeq(q, 1, Len(q) - 1)), q[Len(q)])

RECURSIVE PyMinSeq(_)
PyMinSeq(q) == IF Len(q) = 1 THEN q[1] ELSE PyMin(PyMinSeq(SubSeq(q, 1, Len(q) - 1)), q[Len(q)])

\* 1e-10
Tiny == FDiv(FromRat(1, 100000), FromInt(100000))

\* an exception leaving the call
Raise(e) == [k |-> "raise", exc |-> e]

\* lines 107-111: the angle where the edges a and b meet, opposite to c
angle_at_vertex(a, b, c) ==
    LET cos_angle == FDiv(FSub(FAdd(FMul(a, a), FMul(b, b)), FMul(c, c)),
                          FAdd(FMul(FMul(FromInt(2), a), b), Tiny))
    IN  FAcosDeg(FClip(cos_angle, FromInt(-1), FromInt(1)))

\* the node array of a mesh whose coordinates are multiples of the length
\* unit n/d
Unit1 == [n |-> 1, d |-> 1]

Points(coords, unit) ==
    [i \in 1..Len(coords) |-> <<FromRat(coords[i][1] * unit.n, unit.d),
                                FromRat(coords[i][2] * unit.n, unit.d),
                                FromRat(coords[i][3] * unit.n, unit.d)>>]

\* lines 96-100: the edge lengths e0, e1, e2 of one element
ElementEdges(points, elem) ==
    <<Dist(At(points, elem[2]), At(points, elem[1])),
      Dist(At(points, elem[3]), At(points, elem[2])),
      Dist(At(points, elem[1]), At(points, elem[3]))>>

\* the test of line 114 without e0
ValidEdges_lax(e) == FGt(e[2], Tiny) /\ FGt(e[3], Tiny)

\* line 114
ValidEdges(e) == FGt(e[1], Tiny) /\ FGt(e[2], Tiny) /\ FGt(e[3], Tiny)

\* lines 115-117: the angles a0, a1, a2 of one element
ElementAngles(e) ==
    <<angle_at_vertex(e[1], e[3], e[2]),
      angle_at_vertex(e[1], e[2], e[3]),
      angle_at_vertex(e[2], e[3], e[1])>>

\* the same with the edges taken as they come, not sorted
Collect_unsorted(acc, edges, angles) ==
    [aspect_ratios |-> IF FGt(edges[1], Tiny)
                       THEN Append(acc.aspect_ratios, FDiv(edges[3], edges[1]))
                       ELSE acc.aspect_ratios,
     min_angles |-> IF ValidEdges(edges) THEN Append(acc.min_angles, PyMinSeq(angles))
                    ELSE acc.min_angles,
     max_angles |-> IF ValidEdges(edges) THEN Append(acc.max_angles, PyMaxSeq(angles))
                    ELSE acc.max_angles]

\* lines 102-104 and 114-119: what one element adds to the three lists
Collect(acc, edges, angles) ==
    [aspect_ratios |-> IF FGt(PyMinSeq(edges), Tiny)
                       THEN Append(acc.aspect_ratios, FDiv(PyMaxSeq(edges), PyMinSeq(edges)))
                       ELSE acc.aspect_ratios,
     min_angles |-> IF ValidEdges(edges) THEN Append(acc.min_angles, PyMinSeq(angles))
                    ELSE acc.min_angles,
     max_angles |-> IF ValidEdges(edges) THEN Append(acc.max_angles, PyMaxSeq(angles))
                    ELSE acc.max_angles]

\* lines 95-119
QualityStep(acc, points, elem) ==
    Collect(acc, ElementEdges(points, elem), ElementAngles(ElementEdges(points, elem)))

RECURSIVE QualityLoop(_, _, _)
QualityLoop(points, elems, n) ==
    IF n = 0 THEN [aspect_ratios |-> <<>>, min_angles |-> <<>>, max_angles |-> <<>>]
    ELSE QualityStep(QualityLoop(points, elems, n - 1), points, elems[n])

\* lines 125-126: the mean of a list of angles, 60 for an empty one
AvgAngle(angles) == IF angles # <<>> THEN FMean(angles) ELSE FromInt(60)

\* lines 130-132
ar_score(avg_ar) ==
    PyMax(FZero, FSub(FromInt(1), FDiv(FSub(avg_ar, FromInt(1)), FromInt(4))))

angle_score(avg_min_angle) == PyMin(FDiv(avg_min_angle, FromInt(30)), FromInt(1))

max_angle_score(avg_max_angle) ==
    PyMax(FZero, FSub(FromInt(1), FDiv(FSub(avg_max_angle, FromInt(60)), FromInt(60))))

\* lines 124-132: the three sub-scores of a mesh with at least one ratio
SubScores(aspect_ratios, min_angles, max_angles) ==
    [ar_score |-> ar_score(FMean(aspect_ratios)),
     angle_score |-> angle_score(AvgAngle(min_angles)),
     max_angle_score |-> max_angle_score(AvgAngle(max_angles))]

\* line 134
QualityScore(s) ==
    FDiv(FAdd(FAdd(s.ar_score, s.angle_score), s.max_angle_score), FromInt(3))

\* without the test of line 121: min() of an empty list raises
Neutral_unguarded(n_nodes, n_elements) == Raise("ValueError")

\* lines 121-122: the record for a mesh without any valid element
Neutral(n_nodes, n_elements) ==
    [n_nodes |-> n_nodes, n_elements |-> n_elements,
     min_aspect_ratio |-> FromInt(1), max_aspect_ratio |-> FromInt(1),
     avg_aspect_ratio |-> FromInt(1),
     min_angle |-> FromInt(60), max_angle |-> FromInt(60), avg_angle |-> FromInt(60),
     quality_score |-> FromInt(1)]

\* lines 121-146: the metrics from the three lists
Metrics(n_nodes, n_elements, aspect_ratios, min_angles, max_angles) ==
    IF aspect_ratios = <<>>
    THEN Neutral(n_nodes, n_elements)
    ELSE [n_nodes |-> n_nodes, n_elements |-> n_elements,
          min_aspect_ratio |-> PyMinSeq(aspect_ratios),
          max_aspect_ratio |-> PyMaxSeq(aspect_ratios),
          avg_aspect_ratio |-> FMean(aspect_ratios),
          min_angle |-> IF min_angles # <<>> THEN PyMinSeq(min_angles) ELSE FromInt(60),
          max_angle |-> IF max_angles # <<>> THEN PyMaxSeq(max_angles) ELSE FromInt(60),
          avg_angle |-> AvgAngle(min_angles),
          quality_score |-> QualityScore(SubScores(aspect_ratios, min_angles, max_angles))]

MetricsOf(n_nodes, n_elements, acc) ==
    Metrics(n_nodes, n_elements, acc.aspect_ratios, acc.min_angles, acc.max_angles)

\* lines 79-146
calculate_mesh_quality(points, elems) ==
    MetricsOf(Len(points), Len(elems), QualityLoop(points, elems, Len(elems)))

(***************************************************************************)
(* fea_solver.py: simple_fea_solver, the stress estimator.                 *)
(***************************************************************************)
FEA_MATERIALS ==
    [aluminum |-> [name |-> "Aluminum 6061-T6", E |-> 68900, yield_strength |-> 276],
     steel    |-> [name |-> "Steel 304", E |-> 193000, yield_strength |-> 215],
     pla      |-> [name |-> "PLA", E |-> 3500, yield_strength |-> 50],
     petg     |-> [name |-> "PETG", E |-> 2100, yield_strength |-> 28],
     abs      |-> [name |-> "ABS", E |-> 2300, yield_strength |-> 40]]

\* a finite or infinite float as the fraction handed to the status bands
ToNum(a) ==
    CASE a.k = "inf" -> PosInf
      [] a.k = "nan" -> NaN
      [] a.e >= 0 -> Num(a.m * 2^a.e, 1)
      [] OTHER -> Num(a.m, 2^(-a.e))

\* the array object itself, as opposed to a copy of what it holds
Ref(name) == [ref |-> name]

\* node_coords[:, axis] as floats
Column(coords, axis) == [i \in 1..Len(coords) |-> FromInt(coords[i][axis])]

\* ndarray.max() and np.max: NaN if any entry is NaN
NpMax(q) == IF \E i \in 1..Len(q) : q[i].k = "nan" THEN NaN ELSE PyMaxSeq(q)
NpMin(q) == IF \E i \in 1..Len(q) : q[i].k = "nan" THEN NaN ELSE PyMinSeq(q)

\* np.minimum(a, b)
NpMinimum(a, b) == IF a.k = "nan" \/ b.k = "nan" THEN NaN ELSE IF FLt(b, a) THEN b ELSE a

\* node_coords[idx] for a list of 0-based indices
Pick(coords, idx) == [j \in 1..Len(idx) |-> At(coords, idx[j])]

\* np.mean(points, axis=0) of a non-empty (n,3) integer array
MeanPoint(points) ==
    <<FMean(Column(points, 1)), FMean(Column(points, 2)), FMean(Column(points, 3))>>

\* an optional list that is given
Some(q) == [k |-> "list", items |-> q]

\* Python truthiness of an optional list
NonEmpty(x) == x # None /\ x.items # <<>>

\* a[i] of the source for an index that may be negative
PyAt(a, i) == IF i >= 0 THEN a[i + 1] ELSE a[Len(a) + i + 1]

\* lines 295-305: the fixed centers, one per listed landmark, else the fallback
FixedCenters(coords, fixed_nodes, hole_centers, fixed_hole_indices) ==
    LET z == Column(coords, 3)
        z_mid == FDiv(FAdd(NpMin(z), NpMax(z)), FromInt(2))
        idxs == IF NonEmpty(hole_centers) /\ NonEmpty(fixed_hole_indices)
                THEN SelectSeq(fixed_hole_indices.items,
                               LAMBDA idx : idx < Len(hole_centers.items))
                ELSE <<>>
        listed == [j \in 1..Len(idxs) |->
                      <<FromInt(PyAt(hole_centers.items, idxs[j])[1]),
                        FromInt(PyAt(hole_centers.items, idxs[j])[2]), z_mid>>]
    IN  IF listed # <<>> THEN listed
        ELSE IF Len(fixed_nodes) > 0 THEN <<MeanPoint(Pick(coords, fixed_nodes))>>
        ELSE <<ToF3(coords[1])>>

\* lines 311-314: the distance from p to the nearest fixed center
RECURSIVE DistToFixed(_, _, _)
DistToFixed(p, fixed_centers, n) ==
    IF n = 0 THEN PosInf
    ELSE NpMinimum(DistToFixed(p, fixed_centers, n - 1), Dist(p, fixed_centers[n]))

\* lines 347-352: the stress concentration at (x, y) after the first n landmarks
RECURSIVE HoleFactor(_, _, _, _)
HoleFactor(x, y, hcs, n) ==
    IF n = 0 THEN FromInt(1)
    ELSE LET prev == HoleFactor(x, y, hcs, n - 1)
             dx == FSub(x, FromInt(hcs[n][1]))
             dy == FSub(y, FromInt(hcs[n][2]))
             hole_dist == FSqrt(FAdd(FMul(dx, dx), FMul(dy, dy)))
         IN  IF FLt(hole_dist, FromInt(10))
             THEN PyMax(prev, FSub(FromRat(5, 2), FDiv(hole_dist, FromInt(10))))
             ELSE prev

\* lines 285-287: the extent of the mesh along one axis
Extent(coords, axis) == FSub(NpMax(Column(coords, axis)), NpMin(Column(coords, axis)))

\* line 291: the load center, the mean of all nodes for an empty load_nodes
LoadCenter(coords, load_nodes) ==
    IF Len(load_nodes) > 0 THEN MeanPoint(Pick(coords, load_nodes)) ELSE MeanPoint(coords)

\* lines 316-317: the mean distance from the load center to the fixed centers
Span(load_center, fixed_centers) ==
    FMean([j \in 1..Len(fixed_centers) |-> Dist(load_center, fixed_centers[j])])

\* line 320
Area(x_range, thickness) == FMul(FMul(x_range, thickness), FromRat(7, 10))

\* line 327
MomentOfInertia(x_range, thickness) ==
    FDiv(FMul(x_range, FMul(FMul(thickness, thickness), thickness)), FromInt(12))

\* line 323
ForceMagnitude(force) == Dist(ToF3(force), <<FZero, FZero, FZero>>)

\* line 369 alone, without the clamp of line 370
TargetMax_unclamped(F_mag, area) ==
    FMul(FDiv(F_mag, FMul(area, FromRat(1, 10))), FromRat(5, 2))

\* lines 369-370
TargetMax(F_mag, area) ==
    PyMax(FromInt(5),
          PyMin(FMul(FDiv(F_mag, FMul(area, FromRat(1, 10))), FromRat(5, 2)), FromInt(50)))

\* lines 378-379: the clamped estimate of the largest displacement
MaxDispEstimate(F_mag, span, material, I) ==
    PyMax(FromRat(1, 1000),
          PyMin(IF FGt(I, FZero)
                THEN FDiv(FMul(F_mag, FMul(FMul(span, span), span)),
                          FMul(FMul(FromInt(3), FromInt(material.E)), I))
                ELSE FromRat(1, 100),
                FromInt(1)))

\* lines 335-364: the unnormalised stress at one node
NodeStress(x, y, y_mean, dist_to_load_i, dist_to_fixed_i, M, I, F_mag, area, hcs) ==
    LET d_load == FAdd(dist_to_load_i, FromRat(1, 10))
        d_fixed == FAdd(dist_to_fixed_i, FromRat(1, 10))
        y_dist == FAbs(FSub(y, y_mean))
        sigma_bend == IF FGt(I, FZero) THEN FDiv(FMul(M, y_dist), I) ELSE FZero
        sigma_direct == FDiv(F_mag, area)
        hole_factor == HoleFactor(x, y, hcs, Len(hcs))
        base_stress ==
            FMul(FSqrt(FAdd(FMul(sigma_bend, sigma_bend),
                            FMul(FromInt(3), FMul(sigma_direct, sigma_direct)))),
                 hole_factor)
        fixed_stress_factor ==
            FAdd(FromInt(1), FMul(FromRat(3, 2), FExp(FDiv(FNeg(d_fixed), FromInt(8)))))
        load_stress_factor ==
            FAdd(FromInt(1), FMul(FromRat(1, 2), FExp(FDiv(FNeg(d_load), FromInt(10)))))
    IN  FMul(FMul(base_stress, fixed_stress_factor), load_stress_factor)

\* the same with the profile t (1 - t), which is back at zero at t = 1
NodeDisplacement_flat(fixed_nodes, dist_to_fixed_i, span, max_disp_estimate) ==
    IF Len(fixed_nodes) > 0
    THEN LET rel_pos == IF FGt(span, FZero) THEN FDiv(dist_to_fixed_i, span)
                        ELSE FromRat(1, 2)
         IN  <<FZero, FZero,
               FMul(FMul(FNeg(max_disp_estimate), rel_pos), FSub(FromInt(1), rel_pos))>>
    ELSE <<FZero, FZero, FZero>>

\* lines 383-385: the displacement of one node
NodeDisplacement(fixed_nodes, dist_to_fixed_i, span, max_disp_estimate) ==
    IF Len(fixed_nodes) > 0
    THEN LET rel_pos == IF FGt(span, FZero) THEN FDiv(dist_to_fixed_i, span)
                        ELSE FromRat(1, 2)
         IN  <<FZero, FZero,
               FMul(FMul(FNeg(max_disp_estimate), rel_pos), FSub(FromInt(2), rel_pos))>>
    ELSE <<FZero, FZero, FZero>>

\* line 389
SolverSafetyFactor(max_stress, material) ==
    IF FGt(max_stress, FZero) THEN FDiv(FromInt(material.yield_strength), max_stress)
    ELSE PosInf

\* FEAResult with the two counts exchanged
FEAResult_swapped(n_nodes, n_elements, max_stress, max_disp, material, stress, displacement) ==
    [k |-> "FEAResult", success |-> TRUE,
     mesh_nodes |-> n_elements, mesh_elements |-> n_nodes,
     max_stress |-> max_stress, max_displacement |-> max_disp,
     safety_factor |-> SolverSafetyFactor(max_stress, material),
     stress_field |-> stress, displacement_field |-> displacement,
     node_coords |-> Ref("node_coords"), elements |-> Ref("elements")]

\* lines 391-402: the record returned; node_coords and elements are the
\* caller's arrays, not copies
FEAResult(n_nodes, n_elements, max_stress, max_disp, material, stress, displacement) ==
    [k |-> "FEAResult", success |-> TRUE,
     mesh_nodes |-> n_nodes, mesh_elements |-> n_elements,
     max_stress |-> max_stress, max_displacement |-> max_disp,
     safety_factor |-> SolverSafetyFactor(max_stress, material),
     stress_field |-> stress, displacement_field |-> displacement,
     node_coords |-> Ref("node_coords"), elements |-> Ref("elements")]

\* lines 367-402, given the unnormalised stresses, their maximum, the target
\* and the clamped displacement estimate
Normalised(n_nodes, n_elements, fixed_nodes, material, dist_to_fixed, span, raw, raw_max, target_max, max_disp_estimate) ==
    FEAResult(n_nodes, n_elements,
              IF FGt(raw_max, FZero) THEN target_max ELSE raw_max,
              NpMax(<<FZero>> \o
                    [i \in 1..n_nodes |->
                        FAbs(NodeDisplacement(fixed_nodes, dist_to_fixed[i], span,
                                              max_disp_estimate)[3])]),
              material,
              IF FGt(raw_max, FZero)
              THEN [i \in 1..n_nodes |-> FMul(FDiv(raw[i], raw_max), target_max)]
              ELSE raw,
              [i \in 1..n_nodes |->
                  NodeDisplacement(fixed_nodes, dist_to_fixed[i], span, max_disp_estimate)])

\* lines 331-379, given the distances, span, area, |force| and moment of inertia
StressField(coords, elems, fixed_nodes, material, hcs, dist_to_load, dist_to_fixed, span, area, F_mag, I, y_mean) ==
    LET raw == [i \in 1..Len(coords) |->
                   NodeStress(FromInt(coords[i][1]), FromInt(coords[i][2]), y_mean,
                              dist_to_load[i], dist_to_fixed[i],
                              FMul(F_mag, span), I, F_mag, area, hcs)]
    IN  Normalised(Len(coords), Len(elems), fixed_nodes, material, dist_to_fixed, span,
                   raw, NpMax(raw), TargetMax(F_mag, area),
                   MaxDispEstimate(F_mag, span, material, I))

\* lines 308-328, given the extents and the load and fixed centers
Loading(coords, elems, fixed_nodes, force, material, hcs, x_range, thickness, load_center, fixed_centers) ==
    StressField(coords, elems, fixed_nodes, material, hcs,
                [i \in 1..Len(coords) |-> Dist(ToF3(coords[i]), load_center)],
                [i \in 1..Len(coords) |->
                    DistToFixed(ToF3(coords[i]), fixed_centers, Len(fixed_centers))],
                Span(load_center, fixed_centers),
                Area(x_range, thickness),
                ForceMagnitude(force),
                MomentOfInertia(x_range, thickness),
                FMean(Column(coords, 2)))

\* lines 261-402
simple_fea_solver(coords, elems, fixed_nodes, load_nodes, force, material, hole_centers, fixed_hole_indices) ==
    IF Len(coords) = 0 THEN Raise("ValueError")      \* line 286: max() of an empty array
    ELSE Loading(coords, elems, fixed_nodes, force, material,
                 IF NonEmpty(hole_centers) THEN hole_centers.items ELSE <<>>,
                 Extent(coords, 1),
                 Extent(coords, 3),
                 LoadCenter(coords, load_nodes),
                 FixedCenters(coords, fixed_nodes, hole_centers, fixed_hole_indices))

(***************************************************************************)
(* fea_solver.py: run_analysis, the pipeline from a model file to a shown  *)
(* result.  The mesh that mesh_stl reads from the file is the state's      *)
(* node array and element array.  What the call returns is recorded       *)
(* together with the calls it made and the arguments it handed over.       *)
(***************************************************************************)
\* lines 657-675: the hole centers of the triangle bracket (side 80, inset
\* 15), on the millimetre grid the nodes are explored on
BracketHoles == <<<<0, 31>>, <<-27, -16>>, <<27, -16>>>>

\* line 679: hole_radius=5.0
BracketRadius == 5 * RadiusScale

\* node_coords[:, 2].min() and .max() of a non-empty integer array
ZMin(coords) == CHOOSE z \in {coords[i][3] : i \in 1..Len(coords)} : \A i \in 1..Len(coords) : z <= coords[i][3]
ZMax(coords) == CHOOSE z \in {coords[i][3] : i \in 1..Len(coords)} : \A i \in 1..Len(coords) : z >= coords[i][3]

\* lines 685-687: the nodes of the holes listed in the first n entries of fix_holes
RECURSIVE CollectFixed(_, _, _)
CollectFixed(hole_nodes, fix_holes, n) ==
    IF n = 0 THEN <<>>
    ELSE IF fix_holes[n] < Len(hole_nodes)
         THEN CollectFixed(hole_nodes, fix_holes, n - 1) \o PyAt(hole_nodes, fix_holes[n])
         ELSE CollectFixed(hole_nodes, fix_holes, n - 1)

\* lines 690-691
CollectLoad(hole_nodes, load_hole) ==
    IF load_hole < Len(hole_nodes) THEN PyAt(hole_nodes, load_hole) ELSE <<>>

\* an index below -len(a) passes the test i < len(a) and then fails in a[i]
IndexError(a, idxs) == \E j \in 1..Len(idxs) : idxs[j] < -Len(a)

\* the fallback without the margin of 1: the nodes below the lowest node
BottomNodes_strict(coords) == Where([i \in 1..Len(coords) |-> coords[i][3] < ZMin(coords)])

\* lines 696-697: the nodes within 1 of the lowest z
BottomNodes(coords) == Where([i \in 1..Len(coords) |-> coords[i][3] < ZMin(coords) + 1])

\* lines 701-702: the nodes within 1 of the highest z
TopNodes(coords) == Where([i \in 1..Len(coords) |-> coords[i][3] > ZMax(coords) - 1])

\* lines 694-697
FixedNodes(coords, hole_nodes, fix_holes) ==
    IF Len(CollectFixed(hole_nodes, fix_holes, Len(fix_holes))) = 0
    THEN BottomNodes(coords)
    ELSE CollectFixed(hole_nodes, fix_holes, Len(fix_holes))

\* lines 699-702
LoadNodes(coords, hole_nodes, load_hole) ==
    IF Len(CollectLoad(hole_nodes, load_hole)) = 0
    THEN TopNodes(coords)
    ELSE CollectLoad(hole_nodes, load_hole)

\* viewer.py lines 817-822: the class of the safety factor shown by the page
SafetyClass(safety_factor) ==
    IF Ge(safety_factor, Num(2, 1)) THEN "safe"
    ELSE IF Ge(safety_factor, Num(3, 2)) THEN "warning"
    ELSE "danger"

\* viewer.py lines 853-856: the parameters of view_fea_web, the first
\* ViewFeaWebRequired of them without a default
ViewFeaWebParams ==
    <<"stl_path", "stress_data", "vertex_positions", "max_stress", "max_displacement",
      "safety_factor", "fixed_positions", "load_position", "load_direction",
      "force_magnitude">>

ViewFeaWebRequired == 6

\* viewer.py lines 853-863: a call of view_fea_web with positional arguments
view_fea_web(args) ==
    IF Len(args) > Len(ViewFeaWebParams) \/ Len(args) < ViewFeaWebRequired
    THEN Raise("TypeError")
    ELSE [k |-> "page", safety_class |-> SafetyClass(args[6]), shown |-> args]

\* lines 476-487: z_mid of the mesh, as a float
ZMid(coords) == FDiv(FAdd(NpMin(Column(coords, 3)), NpMax(Column(coords, 3))), FromInt(2))

\* lines 734-735 and 477-487: the positions of the listed fixed holes and of
\* the load hole, at mid thickness
FixedPositions(coords, fix_holes) ==
    [j \in 1..Len(SelectSeq(fix_holes, LAMBDA i : i < Len(BracketHoles))) |->
        <<FromInt(PyAt(BracketHoles, SelectSeq(fix_holes, LAMBDA i : i < Len(BracketHoles))[j])[1]),
          FromInt(PyAt(BracketHoles, SelectSeq(fix_holes, LAMBDA i : i < Len(BracketHoles))[j])[2]),
          ZMid(coords)>>]

LoadPosition(coords, load_hole) ==
    IF load_hole < Len(BracketHoles)
    THEN <<FromInt(PyAt(BracketHoles, load_hole)[1]), FromInt(PyAt(BracketHoles, load_hole)[2]), ZMid(coords)>>
    ELSE <<>>

\* lines 497-511: the thirteen positional arguments of the call of view_fea_web
ViewerArgs(coords, result, fixed_positions, load_position, force_magnitude, quality) ==
    <<"stl_path",
      TakeAt(result.stress_field, find_nearest_numpy(coords, coords).indices),
      coords,
      result.max_stress, result.max_displacement, ToNum(result.safety_factor),
      fixed_positions, load_position, <<0, 0, -1>>, force_magnitude,
      result.mesh_elements, quality.avg_aspect_ratio, quality.quality_score>>

\* lines 445-511
visualize_stress_web(coords, result, fixed_positions, load_position, force_magnitude, quality) ==
    view_fea_web(ViewerArgs(coords, result, fixed_positions, load_position, force_magnitude, quality))

\* lines 574-587: the status line of the native viewer
visualize_stress_pyvista(result) ==
    [k |-> "window", status |-> IF FLe(FromRat(3, 2), result.safety_factor) THEN "SAFE" ELSE "WARNING"]

\* lines 423-427
visualize_stress(coords, result, use_web, fixed_positions, load_position, force_magnitude, quality) ==
    IF use_web
    THEN visualize_stress_web(coords, result, fixed_positions, load_position, force_magnitude, quality)
    ELSE visualize_stress_pyvista(result)

\* lines 724-727: the note printed after the summary
SafetyNote(result) ==
    IF FLt(result.safety_factor, FromRat(3, 2)) THEN "low safety factor"
    ELSE IF FGt(result.safety_factor, FromInt(4)) THEN "consider reducing material"
    ELSE "none"

\* what a call of run_analysis did: the calls it made in order, the node sets
\* it passed to simple_fea_solver, the note it printed, what the viewer was
\* handed, and the FEAResult it returned or the exception that left it
Ran(calls, passed, note, shown, value) ==
    [k |-> "run_analysis", calls |-> calls, passed |-> passed, note |-> note,
     shown |-> shown, value |-> value]

\* lines 729-746, given the result of the solver
Visualized(coords, elems, fix_holes, load_hole, force_magnitude, visualize, use_native_viewer, passed, result, shown) ==
    IF ~visualize
    THEN Ran(<<"mesh_stl", "find_hole_nodes", "simple_fea_solver">>,
             passed, SafetyNote(result), None, result)
    ELSE Ran(<<"mesh_stl", "find_hole_nodes", "simple_fea_solver", "visualize_stress">>,
             passed, SafetyNote(result), shown,
             IF shown.k = "raise" THEN shown ELSE result)

\* lines 707-744, given the node sets
Solved(coords, elems, fix_holes, load_hole, force_magnitude, material, visualize, use_native_viewer, fixed_nodes, load_nodes, result) ==
    Visualized(coords, elems, fix_holes, load_hole, force_magnitude, visualize,
               use_native_viewer,
               [fixed_nodes |-> fixed_nodes, load_nodes |-> load_nodes],
               result,
               IF visualize
               THEN visualize_stress(coords, result, ~use_native_viewer,
                                     FixedPositions(coords, fix_holes),
                                     LoadPosition(coords, load_hole), force_magnitude,
                                     calculate_mesh_quality(Points(coords, Unit1), elems))
               ELSE None)

\* lines 683-717, given the lists of the locator
Selected(coords, elems, fix_holes, load_hole, force_magnitude, material, visualize, use_native_viewer, hole_nodes) ==
    IF IndexError(hole_nodes, fix_holes) \/ IndexError(hole_nodes, <<load_hole>>)
    THEN Ran(<<"mesh_stl", "find_hole_nodes">>, None, "none", None, Raise("IndexError"))
    ELSE Solved(coords, elems, fix_holes, load_hole, force_magnitude, material, visualize,
                use_native_viewer,
                FixedNodes(coords, hole_nodes, fix_holes),
                LoadNodes(coords, hole_nodes, load_hole),
                simple_fea_solver(coords, elems,
                                  FixedNodes(coords, hole_nodes, fix_holes),
                                  LoadNodes(coords, hole_nodes, load_hole),
                                  <<0, 0, -force_magnitude>>, material,
                                  Some(BracketHoles), Some(fix_holes)))

\* lines 597-746
run_analysis(coords, elems, fix_holes, load_hole, force_magnitude, material_name, visualize, use_native_viewer) ==
    IF material_name \notin DOMAIN FEA_MATERIALS
    THEN Ran(<<>>, None, "none", None, Raise("ValueError"))                 \* line 630
    ELSE IF Len(coords) = 0
    THEN Ran(<<"mesh_stl">>, None, "none", None, Raise("ValueError"))       \* line 678
    ELSE Selected(coords, elems, fix_holes, load_hole, force_magnitude,
                  FEA_MATERIALS[material_name], visualize, use_native_viewer,
                  find_hole_nodes(coords, BracketHoles, BracketRadius,
                                  [k |-> "tuple", z_min |-> ZMin(coords),
                                   z_max |-> ZMax(coords)]))

RunAnalysis ==
    /\ call.op = "run_analysis"
    /\ ret = None
    /\ ret' = run_analysis(node_coords, elements, call.fix_holes, call.load_hole,
                           call.force_magnitude, call.material_name, call.visualize,
                           call.use_native_viewer)
    /\ UNCHANGED <<node_coords, elements, stl_vertices, stress_field, call, jobs>>

\* viewer.py: a call of view_fea_web from outside the pipeline
ViewFeaWeb ==
    /\ call.op = "view_fea_web"
    /\ ret = None
    /\ ret' = view_fea_web(call.args)
    /\ UNCHANGED <<node_coords, elements, stl_vertices, stress_field, call, jobs>>

\* a call of visualize_stress_pyvista on a result
VisualizeStressPyvista ==
    /\ call.op = "visualize_stress_pyvista"
    /\ ret = None
    /\ ret' = visualize_stress_pyvista(call.result)
    /\ UNCHANGED <<node_coords, elements, stl_vertices, stress_field, call, jobs>>

(***************************************************************************)
(* analysis_agent.py: AnalysisAgent.run_structural_analysis, the pipeline  *)
(* around the external mesher (gmsh) and solver (ccx).  What the two       *)
(* programs and the file system do is an input of the call.                *)
(***************************************************************************)
\* lines 155-159
get_material(name) ==
    IF name \notin DOMAIN AGENT_MATERIALS THEN Raise("ValueError") ELSE AGENT_MATERIALS[name]

\* lines 213-244: (success, info) of generate_mesh for one behaviour of gmsh
generate_mesh(gmsh) ==
    CASE gmsh.k = "exit" /\ gmsh.returncode # 0 -> <<FALSE, [error |-> Some(gmsh.stderr)]>>
      [] gmsh.k = "exit" /\ gmsh.returncode = 0 ->
            <<TRUE, [nodes |-> gmsh.nodes, elements |-> gmsh.elements]>>
      [] gmsh.k = "FileNotFoundError" -> <<FALSE, [error |-> Some("Gmsh not installed")]>>
      [] gmsh.k = "TimeoutExpired" -> <<FALSE, [error |-> Some("Meshing timed out")]>>

\* a number in the .dat file that float() rejects
Unparsable == [k |-> "unparsable"]

\* lines 372-385: the results dict after reading the .dat file; a key that
\* was not found is None, a number that float() rejects is the exception
Parsed(dat) ==
    IF dat.max_stress = Unparsable \/ dat.max_displacement = Unparsable
    THEN Raise("ValueError")
    ELSE [max_stress |-> dat.max_stress, max_displacement |-> dat.max_displacement]

\* lines 346-397: (success, results) of run_calculix for one behaviour of ccx
run_calculix(ccx) ==
    CASE ccx.k = "exit" /\ ccx.returncode # 0 -> <<FALSE, [error |-> Some(ccx.stderr)]>>
      [] ccx.k = "exit" /\ ccx.returncode = 0 ->
            IF ccx.dat = None THEN <<TRUE, [max_stress |-> None, max_displacement |-> None]>>
            ELSE IF Parsed(ccx.dat) = Raise("ValueError")
            THEN <<FALSE, [error |-> Some("could not convert string to float")]>>
            ELSE <<TRUE, Parsed(ccx.dat)>>
      [] ccx.k = "FileNotFoundError" -> <<FALSE, [error |-> Some("CalculiX (ccx) not installed")]>>
      [] ccx.k = "TimeoutExpired" -> <<FALSE, [error |-> Some("Analysis timed out (>10 min)")]>>

\* dict.get(key, default) on a value that is None when the key is absent
Get(value, default) == IF value = None THEN default ELSE value

\* lines 98-114: the dataclass with its defaults
AnalysisResult(success, material, max_stress, max_displacement, safety_factor, status, mesh, error, recommendations) ==
    [k |-> "AnalysisResult", success |-> success, analysis_type |-> "structural",
     material |-> material, max_stress |-> max_stress,
     max_displacement |-> max_displacement, safety_factor |-> safety_factor,
     status |-> status, mesh_elements |-> mesh.elements, mesh_nodes |-> mesh.nodes,
     error |-> error, recommendations |-> recommendations]

\* a Python string where None can stand as well
Str(s) == [k |-> "str", s |-> s]

\* a failure result: every field but the error (and the mesh counts) at its default
Failure(material, mesh, error) ==
    AnalysisResult(FALSE, material, None, None, None, "unknown", mesh, Str(error), <<>>)

NoMesh == [nodes |-> 0, elements |-> 0]

\* what a call of run_structural_analysis did: the stages it called, in
\* order, and the AnalysisResult it returned
Analysed(calls, result) == [k |-> "run_structural_analysis", calls |-> calls, result |-> result]

\* lines 519-538: interpretation of the solver's results and the success result
Interpreted(material, mat, mesh, max_stress, max_disp) ==
    AnalysisResult(TRUE, mat.name, max_stress, max_disp,
                   interpret_results(max_stress, mat, max_disp, Num(1, 1)).safety_factor,
                   interpret_results(max_stress, mat, max_disp, Num(1, 1)).status,
                   mesh, None,
                   interpret_results(max_stress, mat, max_disp, Num(1, 1)).recommendations)

\* lines 506-538, given the outcome of run_calculix
Solved_ccx(material, mat, mesh, solve) ==
    IF ~solve[1]
    THEN Analysed(<<"get_material", "generate_mesh", "generate_calculix_input", "run_calculix">>,
                  Failure(material, mesh, "Solver failed: " \o solve[2].error.items))
    ELSE Analysed(<<"get_material", "generate_mesh", "generate_calculix_input", "run_calculix",
                    "interpret_results">>,
                  Interpreted(material, mat, mesh,
                              Get(solve[2].max_stress, Num(0, 1)),
                              Get(solve[2].max_displacement, Num(0, 1))))

\* lines 501-538, given whether analysis.inp could be written
Written(material, mat, mesh, inp, ccx) ==
    IF inp = "OSError"
    THEN Analysed(<<"get_material", "generate_mesh", "generate_calculix_input">>, Raise("OSError"))
    ELSE Solved_ccx(material, mat, mesh, run_calculix(ccx))

\* the pipeline that goes on to the solver whatever the mesher reported
Meshed_unchecked(material, mat, mesh, inp, ccx) ==
    Written(material, mat, IF mesh[1] THEN mesh[2] ELSE NoMesh, inp, ccx)

\* lines 489-538, given the outcome of generate_mesh
Meshed(material, mat, mesh, inp, ccx) ==
    IF ~mesh[1]
    THEN Analysed(<<"get_material", "generate_mesh">>,
                  Failure(material, NoMesh, "Meshing failed: " \o mesh[2].error.items))
    ELSE Written(material, mat, mesh[2], inp, ccx)

\* run_structural_analysis that meshes before it looks the material up
run_structural_analysis_late(material, gmsh, inp, ccx) ==
    IF get_material(material) = Raise("ValueError")
    THEN Analysed(<<"generate_mesh", "get_material">>,
                  Failure(material, NoMesh, "Unknown material: " \o material))
    ELSE Meshed(material, get_material(material), generate_mesh(gmsh), inp, ccx)

\* lines 451-538
run_structural_analysis(material, gmsh, inp, ccx) ==
    IF get_material(material) = Raise("ValueError")
    THEN Analysed(<<"get_material">>,
                  Failure(material, NoMesh, "Unknown material: " \o material))
    ELSE Meshed(material, get_material(material), generate_mesh(gmsh), inp, ccx)

GetMaterial ==
    /\ call.op = "get_material"
    /\ ret = None
    /\ ret' = get_material(call.name)
    /\ UNCHANGED <<node_coords, elements, stl_vertices, stress_field, call, jobs>>

RunStructuralAnalysis ==
    /\ call.op = "run_structural_analysis"
    /\ ret = None
    /\ ret' = run_structural_analysis(call.material, call.gmsh, call.inp, call.ccx)
    /\ UNCHANGED <<node_coords, elements, stl_vertices, stress_field, call, jobs>>

CalculateMeshQuality ==
    /\ call.op = "calculate_mesh_quality"
    /\ ret = None
    /\ ret' = calculate_mesh_quality(Points(node_coords, call.unit), elements)
    /\ UNCHANGED <<node_coords, elements, stl_vertices, stress_field, call, jobs>>

SimpleFeaSolver ==
    /\ call.op = "simple_fea_solver"
    /\ ret = None
    /\ ret' = simple_fea_solver(node_coords, elements, call.fixed_nodes, call.load_nodes,
                                call.force, FEA_MATERIALS[call.material],
                                call.hole_centers, call.fixed_hole_indices)
    /\ UNCHANGED <<node_coords, elements, stl_vertices, stress_field, call, jobs>>

(***************************************************************************)
(* The analysis stages on one mesh.  The meshes explored are the empty     *)
(* mesh, two-triangle plates spanning w x h x t, any extent possibly zero, *)
(* and the flat plate of the end-to-end scenario; the caller makes any     *)
(* sequence of calls on the same two arrays.                               *)
(***************************************************************************)
MaxExtent == 12         \* the largest plate extent
MaxForce == 100         \* the magnitude of the applied force

Extents == {0, 1, MaxExtent}

\* the extents of the flat plate of the end-to-end scenario
PlateX == 80
PlateY == 40
PlateZ == 6

PlateNodes(w, h, t) == <<<<0, 0, 0>>, <<w, 0, 0>>, <<0, h, t>>, <<w, h, t>>>>
PlateElements == <<<<0, 1, 2>>, <<1, 3, 2>>>>

Meshes ==
    {[nodes |-> <<>>, elements |-> <<>>]}
        \cup {[nodes |-> PlateNodes(w, h, t), elements |-> PlateElements] :
                  w \in Extents, h \in Extents, t \in Extents}
        \cup {[nodes |-> PlateNodes(PlateX, PlateY, PlateZ), elements |-> PlateElements]}

\* the calls of simple_fea_solver explored on a mesh whose far corner is at (w, h)
SolverCalls(w, h) ==
    [op : {"simple_fea_solver"},
     fixed_nodes : {<<>>, <<0>>, <<0, 2>>},
     load_nodes : {<<>>, <<0>>, <<1>>, <<3>>},
     force : {<<0, 0, 0>>, <<0, 0, -MaxForce>>},
     material : {"aluminum", "pla"},
     hole_centers : {None, Some(<<<<0, 0>>, <<w, h>>>>)},
     fixed_hole_indices : {None, Some(<<0>>)}]

LocatorCalls(w, h) ==
    [op : {"find_hole_nodes"},
     hole_centers : {<<>>, <<<<0, 0>>, <<w, h>>>>},
     hole_radius : {0, RadiusScale * MaxExtent},
     z_range : {None, [k |-> "tuple", z_min |-> 0, z_max |-> 0]}]

FarCorner(coords) == IF coords = <<>> THEN <<0, 0>> ELSE <<coords[4][1], coords[4][2]>>

MeshCalls(coords) ==
    {[op |-> "calculate_mesh_quality", unit |-> Unit1]}
        \cup LocatorCalls(FarCorner(coords)[1], FarCorner(coords)[2])
        \cup SolverCalls(FarCorner(coords)[1], FarCorner(coords)[2])

\* run_analysis: the caller goes on to its next call on the same arrays
NextCall ==
    /\ ret # None
    /\ call' \in MeshCalls(node_coords)
    /\ ret' = None
    /\ UNCHANGED <<node_coords, elements, stl_vertices, stress_field, jobs>>

InitMesh ==
    /\ \E m \in Meshes : node_coords = m.nodes /\ elements = m.elements
    /\ stl_vertices = <<>>
    /\ stress_field = <<>>
    /\ call \in MeshCalls(node_coords)
    /\ ret = None
    /\ jobs = NoJobs

NextMesh == CalculateMeshQuality \/ FindHoleNodes \/ SimpleFeaSolver \/ NextCall

SpecMesh == InitMesh /\ [][NextMesh]_vars

(***************************************************************************)
(* calculate_mesh_quality on triangles of many shapes and sizes.           *)
(***************************************************************************)
MaxTri == 3
MicroDen == 1000000

\* the length units a mesh comes in: 1 and a millionth
Units == {Unit1, [n |-> 1, d |-> MicroDen]}

\* triangles in the plane with a corner at the origin, flat ones included
PlaneTriangles ==
    {<<<<0, 0, 0>>, <<a, 0, 0>>, <<b, c, 0>>>> : a \in {0, MaxTri}, b \in 0..MaxTri, c \in 0..MaxTri}

\* equilateral triangles: the corners are the rotations of (a, b, 0)
EquilateralTriangles ==
    {<<<<a, b, 0>>, <<0, a, b>>, <<b, 0, a>>>> : a \in 1..MaxTri, b \in 0..MaxTri}

\* a triangle whose edges differ in the fourth digit
NearEquilateral == <<<<0, 0, 0>>, <<191, 28, 70>>, <<31, 49, 197>>>>

Triangles == PlaneTriangles \cup EquilateralTriangles \cup {NearEquilateral}

\* the six orders in which an element can name its three nodes
Orderings(elem) ==
    {<<elem[p[1]], elem[p[2]], elem[p[3]]>> :
        p \in {q \in [1..3 -> 1..3] : \A i, j \in 1..3 : q[i] = q[j] => i = j}}

ElementLists ==
    {<<>>, <<<<0, 0, 1>>>>, <<<<0, 1, 2>>, <<1, 2, 0>>>>, <<<<0, 1, 2>>, <<0, 0, 1>>>>,
     <<<<0, 1, 2>>, <<0, 1, 2>>, <<0, 1, 2>>>>}
        \cup {<<e>> : e \in Orderings(<<0, 1, 2>>)}

\* four nodes in the plane, the first three a triangle of PlaneTriangles
Quads ==
    {<<<<0, 0, 0>>, <<MaxTri, 0, 0>>, <<b, c, 0>>, <<0, MaxTri, 0>>>> : b \in 0..MaxTri, c \in 0..MaxTri}

\* two triangles over four nodes, and the same with a flat element between
QuadLists ==
    {<<<<0, 1, 2>>, <<0, 2, 3>>>>, <<<<0, 1, 2>>, <<0, 0, 3>>, <<0, 2, 3>>>>}

\* the meshes handed to calculate_mesh_quality: nodes and elements
QualityMeshes == (Triangles \X ElementLists) \cup (Quads \X QuadLists)

InitQuality ==
    /\ \E mesh \in QualityMeshes : node_coords = mesh[1] /\ elements = mesh[2]
    /\ stl_vertices = <<>>
    /\ stress_field = <<>>
    /\ call \in {[op |-> "calculate_mesh_quality", unit |-> u] : u \in Units}
    /\ ret = None
    /\ jobs = NoJobs

NextQuality == CalculateMeshQuality

SpecQuality == InitQuality /\ [][NextQuality]_vars

(***************************************************************************)
(* run_analysis on bracket meshes: nodes at the three hole centers, near   *)
(* them, or nowhere near them.                                             *)
(***************************************************************************)
\* nodes 0, 1, 2 at the three holes and node 3 at the centroid, of thickness t
BracketNodes(t) == <<<<0, 31, 0>>, <<-27, -16, 0>>, <<27, -16, t>>, <<0, 0, t>>>>

\* holes 0 and 1 are found (hole 1 at two nodes), hole 2 is not
PartialNodes == <<<<0, 31, 0>>, <<-27, -12, 1>>, <<-30, -16, 2>>, <<40, 40, PlateZ>>>>

RunMeshes ==
    {<<>>, PartialNodes, PlateNodes(PlateX, PlateY, PlateZ)}
        \cup {BracketNodes(t) : t \in {0, 1, PlateZ}}

\* hole indices in range, past the end, counted from the end, and before the start
FixHoles == {<<>>, <<0>>, <<0, 1>>, <<1, 1>>, <<3>>, <<-1>>, <<-4>>}
LoadHoles == {0, 2, 3, -1, -4}

RunCalls ==
    [op : {"run_analysis"}, fix_holes : FixHoles, load_hole : LoadHoles,
     force_magnitude : {MaxForce}, material_name : {"aluminum", "pla", "unobtainium"},
     visualize : BOOLEAN, use_native_viewer : BOOLEAN]

InitRun ==
    /\ node_coords \in RunMeshes
    /\ elements = IF node_coords = <<>> THEN <<>> ELSE PlateElements
    /\ stl_vertices = <<>>
    /\ stress_field = <<>>
    /\ call \in RunCalls
    /\ ret = None
    /\ jobs = NoJobs

NextRun == RunAnalysis

SpecRun == InitRun /\ [][NextRun]_vars

(***************************************************************************)
(* The agent's pipeline for every behaviour of the two external programs.  *)
(***************************************************************************)
\* names in the agent's registry, a name of the other registry, and no name
MaterialNames == DOMAIN AGENT_MATERIALS \cup {"aluminum", "unobtainium"}

GmshOutcomes ==
    {[k |-> "FileNotFoundError"], [k |-> "TimeoutExpired"],
     [k |-> "exit", returncode |-> 1, stderr |-> "", nodes |-> 0, elements |-> 0],
     [k |-> "exit", returncode |-> 1, stderr |-> "Error", nodes |-> 0, elements |-> 0],
     [k |-> "exit", returncode |-> 0, stderr |-> "", nodes |-> 0, elements |-> 0],
     [k |-> "exit", returncode |-> 0, stderr |-> "", nodes |-> 4, elements |-> 2]}

\* what the .dat file holds for one quantity: nothing, no number, or a number
DatValues == {None, Unparsable} \cup {Num(n, StressScale) : n \in (-MinStressN)..MinStressN} \cup {Num(MaxStressN, StressScale)}

CcxOutcomes ==
    {[k |-> "FileNotFoundError"], [k |-> "TimeoutExpired"],
     [k |-> "exit", returncode |-> 1, stderr |-> "Error", dat |-> None],
     [k |-> "exit", returncode |-> 0, stderr |-> "", dat |-> None]}
        \cup {[k |-> "exit", returncode |-> 0, stderr |-> "",
               dat |-> [max_stress |-> s, max_displacement |-> d]] :
                  s \in DatValues, d \in {None, Num(0, 1), Num(MaxDisp, 1)}}

AgentCalls ==
    [op : {"get_material"}, name : MaterialNames]
        \cup [op : {"run_structural_analysis"}, material : MaterialNames,
              gmsh : GmshOutcomes, inp : {"written", "OSError"}, ccx : CcxOutcomes]

InitAgent ==
    /\ node_coords = <<>>
    /\ elements = <<>>
    /\ stl_vertices = <<>>
    /\ stress_field = <<>>
    /\ call \in AgentCalls
    /\ ret = None
    /\ jobs = NoJobs

NextAgent == GetMaterial \/ RunStructuralAnalysis

SpecAgent == InitAgent /\ [][NextAgent]_vars

(***************************************************************************)
(* The two entry points that take a material name.                         *)
(***************************************************************************)
InitEntry == InitRun \/ InitAgent

NextEntry == RunAnalysis \/ GetMaterial \/ RunStructuralAnalysis

SpecEntry == InitEntry /\ [][NextEntry]_vars

(***************************************************************************)
(* The places that show a class for a safety factor: interpret_results,    *)
(* the page of the web viewer, the window of the native viewer and the     *)
(* note of run_analysis.                                                   *)
(***************************************************************************)
BandScale == 4          \* safety factors are explored in steps of 1/BandScale
MaxBandN == 20          \* the largest explored safety factor, in those steps

\* the positional arguments of a call of view_fea_web: the six required ones,
\* all ten, and one too many
ViewerCalls ==
    {[op |-> "view_fea_web",
      args |-> SubSeq(<<"stl_path", <<>>, <<>>, Num(MaxStressN, StressScale), Num(0, 1), sf,
                        <<>>, <<>>, <<0, 0, -1>>, MaxForce, 2>>, 1, n)] :
        sf \in {Num(k, BandScale) : k \in 0..MaxBandN} \cup {PosInf}, n \in {6, 10, 11}}

WindowCalls ==
    {[op |-> "visualize_stress_pyvista", result |-> [safety_factor |-> sf]] :
        sf \in {FromRat(k, BandScale) : k \in 0..MaxBandN} \cup {PosInf}}

InitBands ==
    \/ /\ node_coords = <<>>
       /\ elements = <<>>
       /\ stl_vertices = <<>>
       /\ stress_field = <<>>
       /\ call \in ViewerCalls \cup WindowCalls
                     \cup [op : {"interpret_results"},
                           max_stress : {Num(n, StressScale) : n \in (-MinStressN)..MaxStressN},
                           material : {"pla", "petg"},
                           max_displacement : {None, Num(MaxDisp, 1)},
                           displacement_limit : {Num(1, 1)}]
       /\ ret = None
       /\ jobs = NoJobs
    \/ /\ node_coords \in {BracketNodes(t) : t \in 1..PlateZ}
       /\ elements = PlateElements
       /\ stl_vertices = <<>>
       /\ stress_field = <<>>
       /\ call \in [op : {"run_analysis"}, fix_holes : {<<0, 1>>}, load_hole : {2},
                    force_magnitude : {MaxForce}, material_name : {"pla", "petg", "abs"},
                    visualize : {TRUE}, use_native_viewer : {TRUE}]
       /\ ret = None
       /\ jobs = NoJobs

NextBands == InterpretResults \/ ViewFeaWeb \/ VisualizeStressPyvista \/ RunAnalysis

SpecBands == InitBands /\ [][NextBands]_vars

(***************************************************************************)
(* api/main.py: the REST front end of CAD generation and its jobs table.   *)
(* What importing and running the CAD wrapper does is an input of the      *)
(* request: the import fails with ImportError, anything else raises        *)
(* (without CadQuery the wrapper cannot be constructed), or generate       *)
(* returns a CADResult.                                                    *)
(***************************************************************************)
HTTPException(status_code) == [k |-> "HTTPException", status_code |-> status_code]

\* lines 144-153 and 156-163: the response, which carries the job id
CADGenerateResponse(success, job_id) == [k |-> "CADGenerateResponse", success |-> success, job_id |-> job_id]

\* lines 107-163: the table after the request, and the response
generate_cad(table, job_id, wrapper) ==
    CASE wrapper.k = "ImportError" ->
            [jobs |-> table, response |-> HTTPException(503)]
      [] wrapper.k = "Exception" ->
            [jobs |-> table, response |-> CADGenerateResponse(FALSE, job_id)]
      [] wrapper.k = "CADResult" ->
            [jobs |-> [table EXCEPT ![job_id] = [success |-> wrapper.success, output_file |-> wrapper.output_file]],
             response |-> CADGenerateResponse(wrapper.success, job_id)]

\* lines 166-171
get_job(table, job_id) == IF table[job_id] = None THEN HTTPException(404) ELSE table[job_id]

\* lines 174-190
download_output(table, job_id, exists) ==
    IF table[job_id] = None THEN HTTPException(404)
    ELSE IF table[job_id].output_file = None \/ ~exists THEN HTTPException(404)
    ELSE [k |-> "FileResponse", path |-> table[job_id].output_file]

GenerateCad ==
    /\ call.op = "generate_cad"
    /\ ret = None
    /\ jobs' = generate_cad(jobs, call.job_id, call.wrapper).jobs
    /\ ret' = generate_cad(jobs, call.job_id, call.wrapper).response
    /\ UNCHANGED <<node_coords, elements, stl_vertices, stress_field, call>>

GetJob ==
    /\ call.op = "get_job"
    /\ ret = None
    /\ ret' = get_job(jobs, call.job_id)
    /\ UNCHANGED <<node_coords, elements, stl_vertices, stress_field, call, jobs>>

DownloadOutput ==
    /\ call.op = "download_output"
    /\ ret = None
    /\ ret' = download_output(jobs, call.job_id, call.exists)
    /\ UNCHANGED <<node_coords, elements, stl_vertices, stress_field, call, jobs>>

\* what the wrapper does for one request
WrapperOutcomes ==
    {[k |-> "ImportError"], [k |-> "Exception"],
     [k |-> "CADResult", success |-> FALSE, output_file |-> None],
     [k |-> "CADResult", success |-> TRUE, output_file |-> Str("output/model.step")]}

ApiCalls ==
    [op : {"generate_cad"}, job_id : JobIds, wrapper : WrapperOutcomes]
        \cup [op : {"get_job"}, job_id : JobIds]
        \cup [op : {"download_output"}, job_id : JobIds, exists : BOOLEAN]

\* the next request arrives
ApiRequest ==
    /\ call.op \in {"generate_cad", "get_job", "download_output"}
    /\ ret # None
    /\ call' \in ApiCalls
    /\ ret' = None
    /\ UNCHANGED <<node_coords, elements, stl_vertices, stress_field, jobs>>

InitApi ==
    /\ node_coords = <<>>
    /\ elements = <<>>
    /\ stl_vertices = <<>>
    /\ stress_field = <<>>
    /\ call \in ApiCalls
    /\ ret = None
    /\ jobs = NoJobs

NextApi == GenerateCad \/ GetJob \/ DownloadOutput \/ ApiRequest

SpecApi == InitApi /\ [][NextApi]_vars

(***************************************************************************)
(* The two places that compute a safety factor: the estimator on a mesh    *)
(* and interpret_results on a parsed maximum stress.                       *)
(***************************************************************************)
InitSafety ==
    \/ /\ \E m \in Meshes : node_coords = m.nodes /\ elements = m.elements
       /\ stl_vertices = <<>>
       /\ stress_field = <<>>
       /\ call \in SolverCalls(FarCorner(node_coords)[1], FarCorner(node_coords)[2])
       /\ ret = None
       /\ jobs = NoJobs
    \/ /\ node_coords = <<>>
       /\ elements = <<>>
       /\ stl_vertices = <<>>
       /\ stress_field = <<>>
       /\ call \in [op : {"interpret_results"},
                    max_stress : {Num(n, StressScale) : n \in (-MinStressN)..MinStressN}
                                     \cup {PosInf, NaN},
                    material : DOMAIN AGENT_MATERIALS,
                    max_displacement : {None}, displacement_limit : {Num(1, 1)}]
       /\ ret = None
       /\ jobs = NoJobs

NextSafety == SimpleFeaSolver \/ InterpretResults

SpecSafety == InitSafety /\ [][NextSafety]_vars

(***************************************************************************)
(* Properties of interpret_results.                                        *)
(***************************************************************************)
Returned(op) == call.op = op /\ ret # None

\* max_displacement is present, nonzero and strictly over displacement_limit
OverLimit ==
    /\ call.max_displacement # None
    /\ call.max_displacement.n # 0
    /\ call.max_displacement.n * call.displacement_limit.d
         > call.displacement_limit.n * call.max_displacement.d

PositiveStress == call.max_stress.k = "inf" \/ (IsNum(call.max_stress) /\ call.max_stress.n > 0)

\* yield_strength / max_stress < a / b, for a positive finite max_stress
SFBelow(a, b) ==
    AGENT_MATERIALS[call.material].yield_strength * call.max_stress.d * b < a * call.max_stress.n

\* the band of yield_strength / max_stress, by its first recommendation
ExpectedBand ==
    CASE ~PositiveStress -> "High"
      [] call.max_stress.k = "inf" -> "CRITICAL"
      [] SFBelow(1, 1) -> "CRITICAL"
      [] SFBelow(3, 2) -> "Insufficient"
      [] SFBelow(2, 1) -> "Low"
      [] SFBelow(4, 1) -> "Good"
      [] OTHER -> "High"

StatusOfBand(b) ==
    CASE b \in {"CRITICAL", "Insufficient"} -> "FAIL"
      [] b = "Low" -> "WARN"
      [] OTHER -> "PASS"

\* C1: for a positive max_stress and no displacement over the limit, SF < 1
\* gives FAIL (critical), 1 <= SF < 1.5 FAIL (insufficient), 1.5 <= SF < 2 WARN,
\* 2 <= SF < 4 PASS (good), SF >= 4 PASS (high): each boundary in the upper band.
C1_Bands ==
    (Returned("interpret_results") /\ PositiveStress /\ ~OverLimit) =>
        /\ ret.status = StatusOfBand(ExpectedBand)
        /\ ret.recommendations[1] = ExpectedBand

\* a call with SF exactly 1.5 that returned WARN
C1_Witness ==
    /\ Returned("interpret_results") /\ PositiveStress /\ ~OverLimit
    /\ IsNum(call.max_stress)
    /\ 2 * AGENT_MATERIALS[call.material].yield_strength * call.max_stress.d = 3 * call.max_stress.n
    /\ ret.status = "WARN"

\* C2: a displacement strictly over the limit turns PASS into WARN and nothing
\* else; absent, zero or within the limit, the status is the band's.
C2_DisplacementDemotes ==
    Returned("interpret_results") =>
        ret.status = IF OverLimit /\ StatusOfBand(ExpectedBand) = "PASS"
                     THEN "WARN"
                     ELSE StatusOfBand(ExpectedBand)

\* a FAIL that stayed FAIL although the displacement is over the limit
C2_Witness ==
    /\ Returned("interpret_results") /\ OverLimit
    /\ StatusOfBand(ExpectedBand) = "FAIL"
    /\ ret.status = "FAIL"

(***************************************************************************)
(* Properties of the safety factor (SpecSafety).                           *)
(***************************************************************************)
ZeroStress(ms) == IsNum(ms) /\ ms.n = 0

\* sf is yield_strength / ms, for a parsed max_stress ms that is not zero
IsQuotient(sf, yield_strength, ms) ==
    CASE ms.k = "nan" -> sf.k = "nan"
      [] ms.k = "inf" -> SameNum(sf, 0, 1)
      [] OTHER -> SameNum(sf, yield_strength * ms.d, ms.n)

\* C3: for every max_stress handled by simple_fea_solver and by
\* interpret_results, the returned safety factor is +infinity if and only if
\* max_stress == 0, and otherwise equals yield_strength / max_stress.
C3_SafetyFactor ==
    /\ Returned("interpret_results") =>
          /\ (ret.safety_factor = PosInf) <=> ZeroStress(call.max_stress)
          /\ ~ZeroStress(call.max_stress) =>
                 IsQuotient(ret.safety_factor,
                            AGENT_MATERIALS[call.material].yield_strength, call.max_stress)
    /\ (Returned("simple_fea_solver") /\ ret.k = "FEAResult") =>
          /\ (ret.safety_factor = PosInf) <=> (ret.max_stress = FZero)
          /\ ret.max_stress # FZero =>
                 ret.safety_factor =
                     FDiv(FromInt(FEA_MATERIALS[call.material].yield_strength), ret.max_stress)


(***************************************************************************)
(* Properties of find_hole_nodes.                                          *)
(***************************************************************************)
Range(q) == {q[i] : i \in 1..Len(q)}

\* squared (x,y) distance of node i (0-based) to landmark k (1-based)
XYDist2(i, k) ==
    LET p == At(node_coords, i)
        c == call.hole_centers[k]
    IN  (p[1] - c[1]) * (p[1] - c[1]) + (p[2] - c[2]) * (p[2] - c[2])

InZRange(i) ==
    call.z_range = None
    \/ (call.z_range.z_min <= At(node_coords, i)[3] /\ At(node_coords, i)[3] <= call.z_range.z_max)

\* the (x,y) distance of node i to landmark k is strictly below hole_radius
WithinRadius(i, k) ==
    call.hole_radius > 0
    /\ XYDist2(i, k) * RadiusScale * RadiusScale < call.hole_radius * call.hole_radius

NodeIds == 0..(Len(node_coords) - 1)

\* C4: node i is in the set of landmark k iff its (x,y) distance to the landmark
\* is strictly below hole_radius and, when z_range is given, z_min <= z <= z_max.
C4_Membership ==
    Returned("find_hole_nodes") =>
        \A k \in 1..Len(call.hole_centers) : \A i \in NodeIds :
            (i \in Range(ret.hole_nodes[k])) <=> (WithinRadius(i, k) /\ InZRange(i))

\* a node inside the radius with z on the upper end of z_range is in the set,
\* and another node inside the radius is left out for its z alone
C4_Witness ==
    /\ Returned("find_hole_nodes") /\ call.z_range # None
    /\ \E k \in 1..Len(call.hole_centers) : \E i, j \in NodeIds :
          /\ WithinRadius(i, k) /\ At(node_coords, i)[3] = call.z_range.z_max
          /\ i \in Range(ret.hole_nodes[k])
          /\ WithinRadius(j, k) /\ j \notin Range(ret.hole_nodes[k])

AtLandmark(i, k) == XYDist2(i, k) = 0

AtRadius(i, k) ==
    call.hole_radius >= 0
    /\ XYDist2(i, k) * RadiusScale * RadiusScale = call.hole_radius * call.hole_radius

\* C5 as stated: for every radius, a node at the landmark's (x,y) with z in
\* range is included and a node at distance exactly the radius is excluded.
C5_AsStated ==
    Returned("find_hole_nodes") =>
        \A k \in 1..Len(call.hole_centers) : \A i \in NodeIds :
            /\ (AtLandmark(i, k) /\ InZRange(i)) => i \in Range(ret.hole_nodes[k])
            /\ AtRadius(i, k) => i \notin Range(ret.hole_nodes[k])

\* C5 amended: for every radius > 0 a node at the landmark's (x,y) with z in
\* range is included; for every radius a node at distance exactly the radius
\* is excluded.
C5_LandmarkAndRim ==
    Returned("find_hole_nodes") =>
        \A k \in 1..Len(call.hole_centers) : \A i \in NodeIds :
            /\ (call.hole_radius > 0 /\ AtLandmark(i, k) /\ InZRange(i))
                  => i \in Range(ret.hole_nodes[k])
            /\ AtRadius(i, k) => i \notin Range(ret.hole_nodes[k])

\* one landmark with a node on it (included) and a node on its rim (excluded)
C5_Witness ==
    /\ Returned("find_hole_nodes") /\ call.hole_radius > 0
    /\ \E k \in 1..Len(call.hole_centers) : \E i, j \in NodeIds :
          /\ AtLandmark(i, k) /\ InZRange(i) /\ i \in Range(ret.hole_nodes[k])
          /\ AtRadius(j, k) /\ InZRange(j) /\ j \notin Range(ret.hole_nodes[k])

Ascending(q) == \A a, b \in 1..Len(q) : a < b => q[a] < q[b]

\* C6: one list per landmark, in landmark order, each the list the landmark
\* gets when it is the only one; lists ascend; empty lists are kept.
C6_OnePerLandmark ==
    Returned("find_hole_nodes") =>
        /\ Len(ret.hole_nodes) = Len(call.hole_centers)
        /\ \A k \in 1..Len(call.hole_centers) :
              /\ Ascending(ret.hole_nodes[k])
              /\ Range(ret.hole_nodes[k]) = {i \in NodeIds : WithinRadius(i, k) /\ InZRange(i)}
              /\ \A j \in 1..Len(call.hole_centers) :
                    call.hole_centers[j] = call.hole_centers[k] => ret.hole_nodes[j] = ret.hole_nodes[k]

\* two different landmarks whose lists differ and share a node
C6_Witness ==
    /\ Returned("find_hole_nodes") /\ Len(call.hole_centers) = 2
    /\ call.hole_centers[1] # call.hole_centers[2]
    /\ Len(ret.hole_nodes) = 2
    /\ Len(ret.hole_nodes[2]) >= 2
    /\ Range(ret.hole_nodes[1]) \cap Range(ret.hole_nodes[2]) # {}
    /\ Range(ret.hole_nodes[1]) # Range(ret.hole_nodes[2])

(***************************************************************************)
(* Properties of the field transfer.                                       *)
(***************************************************************************)
\* squared distance of query point i to reference point j (both 0-based)
D2(i, j) ==
    LET p == At(stl_vertices, i)
        r == At(node_coords, j)
    IN  (p[1] - r[1]) * (p[1] - r[1]) + (p[2] - r[2]) * (p[2] - r[2])
            + (p[3] - r[3]) * (p[3] - r[3])

QueryIds == 0..(Len(stl_vertices) - 1)

\* C7: the index returned for a query point is that of a reference point at
\* minimum squared distance, the smallest such index, and the transferred
\* value is the source value at that index.
C7_NearestFirst ==
    Returned("transfer") =>
        /\ Len(ret.indices) = Len(stl_vertices)
        /\ \A i \in QueryIds :
              LET idx == At(ret.indices, i)
              IN  /\ idx \in NodeIds
                  /\ \A j \in NodeIds : D2(i, idx) <= D2(i, j)
                  /\ \A j \in NodeIds : j < idx => D2(i, j) > D2(i, idx)
                  /\ At(ret.stress_per_stl_vertex, i) = At(stress_field, idx)

\* a query point with two different reference points at the same minimum
\* distance, given the first of them
C7_Witness ==
    /\ Returned("transfer")
    /\ \E i \in QueryIds : \E j \in NodeIds :
          /\ j > At(ret.indices, i)
          /\ At(node_coords, j) # At(node_coords, At(ret.indices, i))
          /\ D2(i, j) = D2(i, At(ret.indices, i))

\* C8 as stated: transferring V from P onto P returns V, for any sequence P.
C8_AsStated ==
    (Returned("transfer") /\ stl_vertices = node_coords) =>
        ret.stress_per_stl_vertex = stress_field

Distinct(q) == \A a, b \in 1..Len(q) : a # b => q[a] # q[b]

\* C8 amended: transferring V from P onto P returns V when the points of P
\* are pairwise distinct.
C8_IdempotentOnDistinct ==
    (Returned("transfer") /\ stl_vertices = node_coords /\ Distinct(node_coords)) =>
        ret.stress_per_stl_vertex = stress_field

\* a transfer of a non-constant field from two distinct points onto themselves
C8_Witness ==
    /\ Returned("transfer") /\ stl_vertices = node_coords /\ Distinct(node_coords)
    /\ Len(node_coords) >= 2
    /\ stress_field[1] # stress_field[2]
    /\ ret.stress_per_stl_vertex = stress_field

\* C9: the transfer leaves the source points, the source values and the
\* target points as they were.
C9_InputsUnchanged ==
    [][(call.op = "transfer" /\ ret = None /\ ret' # None) =>
          (node_coords' = node_coords /\ stress_field' = stress_field
              /\ stl_vertices' = stl_vertices)]_vars

\* a finished transfer onto a rendering mesh that differs from the source
C9_Witness ==
    /\ Returned("transfer")
    /\ Len(stl_vertices) > Len(node_coords)
    /\ \E i \in QueryIds : At(ret.indices, i) # 0

(***************************************************************************)
(* Properties of the analysis stages on one mesh (SpecMesh).               *)
(***************************************************************************)
\* the returned record holds one of the caller's mesh arrays itself
HoldsMeshArray(r) ==
    /\ "node_coords" \in DOMAIN r
    /\ r.node_coords = Ref("node_coords") \/ r.elements = Ref("elements")

\* C10: no analysis stage mutates the mesh or keeps a reference to it: over
\* any sequence of calls of calculate_mesh_quality, find_hole_nodes and
\* simple_fea_solver on the same arrays, node_coords and elements are
\* unchanged and no returned record holds the caller's arrays themselves.
C10_MeshNeitherChangedNorKept ==
    [][/\ node_coords' = node_coords
       /\ elements' = elements
       /\ ret' # None => ~HoldsMeshArray(ret')]_vars

(***************************************************************************)
(* Properties of calculate_mesh_quality (SpecQuality).                     *)
(***************************************************************************)
\* the node array and the three lists of the call that has returned
CallPoints == Points(node_coords, call.unit)

CallLists == QualityLoop(CallPoints, elements, Len(elements))

CallScores == SubScores(CallLists.aspect_ratios, CallLists.min_angles, CallLists.max_angles)

InUnitInterval(x) == FLe(FZero, x) /\ FLe(x, FromInt(1))

\* C11: for every mesh calculate_mesh_quality returns a quality_score in
\* [0, 1], and each of its three sub-scores (aspect ratio, min angle, max
\* angle) is in [0, 1].
C11_ScoresInUnitInterval ==
    Returned("calculate_mesh_quality") =>
        /\ InUnitInterval(ret.quality_score)
        /\ CallLists.aspect_ratios # <<>> =>
              /\ InUnitInterval(CallScores.ar_score)
              /\ InUnitInterval(CallScores.angle_score)
              /\ InUnitInterval(CallScores.max_angle_score)

\* every element names the three corners of an equilateral triangle
AllEquilateral ==
    /\ node_coords \in EquilateralTriangles
    /\ elements # <<>>
    /\ \A i \in 1..Len(elements) : elements[i] \in Orderings(<<0, 1, 2>>)

\* C12: a mesh whose elements are all equilateral triangles (any edge length
\* above 1e-10, any number of elements) gets quality_score 1.0, with all
\* three sub-scores equal to 1.0.
C12_EquilateralScoresOne ==
    (Returned("calculate_mesh_quality") /\ AllEquilateral) =>
        /\ FEq(ret.quality_score, FromInt(1))
        /\ FEq(CallScores.ar_score, FromInt(1))
        /\ FEq(CallScores.angle_score, FromInt(1))
        /\ FEq(CallScores.max_angle_score, FromInt(1))

\* no element has its three edges above 1e-10
NoValidElement ==
    \A i \in 1..Len(elements) : ~ValidEdges(ElementEdges(CallPoints, elements[i]))

\* C13: when no element has all three edges above 1e-10 (the element list
\* may also be empty), calculate_mesh_quality returns the neutral record
\* (aspect ratios 1, angles 60, score 1.0) and does not raise: nothing is
\* divided by zero and no mean of an empty list is taken.
C13_NeutralWhenAllDegenerate ==
    (Returned("calculate_mesh_quality") /\ NoValidElement) =>
        /\ "quality_score" \in DOMAIN ret
        /\ ret.n_nodes = Len(node_coords) /\ ret.n_elements = Len(elements)
        /\ \A f \in {"min_aspect_ratio", "max_aspect_ratio", "avg_aspect_ratio", "quality_score"} :
              ret[f] = FromInt(1)
        /\ \A f \in {"min_angle", "max_angle", "avg_angle"} : ret[f] = FromInt(60)

\* a mesh with elements, all of them flat: the nodes coincide
C13_Witness ==
    /\ Returned("calculate_mesh_quality")
    /\ NoValidElement
    /\ Len(elements) = 2
    /\ node_coords[1] = node_coords[2] /\ node_coords[2] = node_coords[3]

\* the element list with element i named in the order e
Relabelled(i, e) == [elements EXCEPT ![i] = e]

\* C14: the aspect ratio, the min angle and the max angle of an element are
\* the same for all six orders of its three vertices, so the MeshQuality
\* record does not change when an element is relabelled.
C14_RelabellingInvariant ==
    Returned("calculate_mesh_quality") =>
        \A i \in 1..Len(elements) : \A e \in Orderings(elements[i]) :
            /\ QualityStep(QualityLoop(CallPoints, elements, 0), CallPoints, e)
                  = QualityStep(QualityLoop(CallPoints, elements, 0), CallPoints, elements[i])
            /\ calculate_mesh_quality(CallPoints, Relabelled(i, e)) = ret

\* a scalene triangle, with three different edges and three different angles
C14_Witness ==
    /\ Returned("calculate_mesh_quality")
    /\ Len(elements) = 1
    /\ ValidEdges(ElementEdges(CallPoints, elements[1]))
    /\ Cardinality({ElementEdges(CallPoints, elements[1])[j] : j \in 1..3}) = 3
    /\ elements[1] # <<0, 1, 2>>
    /\ FGt(ret.max_aspect_ratio, FromInt(1))

\* the tolerance of the angle sum, in degrees
AngleTol == 1

\* a0 + a1 + a2 of element i
AngleSum(i) == FSum(ElementAngles(ElementEdges(CallPoints, elements[i])))

\* C15: for every valid triangle (all edges above 1e-10) the three angles
\* computed by the law of cosines sum to 180 degrees within floating
\* tolerance, whatever the absolute size of the triangle.
C15_AnglesSumTo180 ==
    Returned("calculate_mesh_quality") =>
        \A i \in 1..Len(elements) :
            ValidEdges(ElementEdges(CallPoints, elements[i])) =>
                FLe(FAbs(FSub(AngleSum(i), FromInt(180))), FromInt(AngleTol))

(***************************************************************************)
(* Properties of simple_fea_solver (SpecMesh).                             *)
(***************************************************************************)
\* the call of simple_fea_solver has returned a result record
SolverResult == Returned("simple_fea_solver") /\ ret.k = "FEAResult"

\* area and |force| of the call that has returned
CallArea == Area(Extent(node_coords, 1), Extent(node_coords, 3))

CallForce == ForceMagnitude(call.force)

\* C16: in the result of simple_fea_solver every entry of stress_field is
\* >= 0, and whenever the raw maximum is positive (the returned max_stress
\* is then positive too) the field is rescaled so that max(stress_field)
\* equals the returned max_stress, which equals
\* target_max = clamp(|force| / (area * 0.1) * 2.5, 5, 50).
C16_StressFieldNormalised ==
    SolverResult =>
        /\ \A i \in 1..Len(ret.stress_field) : FLe(FZero, ret.stress_field[i])
        /\ FGt(ret.max_stress, FZero) =>
              /\ FEq(NpMax(ret.stress_field), ret.max_stress)
              /\ FEq(ret.max_stress, TargetMax(CallForce, CallArea))

InBand(x) == FLe(FromInt(5), x) /\ FLe(x, FromInt(50))

\* the flat plate of the end-to-end scenario under 100 N, in aluminum
PlateScenario ==
    /\ SolverResult
    /\ node_coords = PlateNodes(PlateX, PlateY, PlateZ)
    /\ call.material = "aluminum"
    /\ FEq(CallForce, FromInt(100))

CallFixedCenters ==
    FixedCenters(node_coords, call.fixed_nodes, call.hole_centers, call.fixed_hole_indices)

CallSpan == Span(LoadCenter(node_coords, call.load_nodes), CallFixedCenters)

CallDistToFixed(i) ==
    DistToFixed(ToF3(node_coords[i]), CallFixedCenters, Len(CallFixedCenters))

CallMaxDisp ==
    MaxDispEstimate(CallForce, CallSpan, FEA_MATERIALS[call.material],
                    MomentOfInertia(Extent(node_coords, 1), Extent(node_coords, 3)))

\* C18: with non-empty fixed_nodes and span > 0, a node at distance 0 from
\* the nearest fixed center gets z-displacement exactly 0 and a node at
\* distance span gets exactly -max_disp, the clamped estimate, which is in
\* [0.001, 1.0]; the x and y displacements of every node are 0.
C18_DisplacementAtEnds ==
    SolverResult =>
        /\ \A i \in 1..Len(node_coords) :
              /\ FEq(ret.displacement_field[i][1], FZero)
              /\ FEq(ret.displacement_field[i][2], FZero)
        /\ (call.fixed_nodes # <<>> /\ FGt(CallSpan, FZero)) =>
              /\ FLe(FromRat(1, 1000), CallMaxDisp) /\ FLe(CallMaxDisp, FromInt(1))
              /\ \A i \in 1..Len(node_coords) :
                    /\ FEq(CallDistToFixed(i), FZero) =>
                          FEq(ret.displacement_field[i][3], FZero)
                    /\ FEq(CallDistToFixed(i), CallSpan) =>
                          FEq(ret.displacement_field[i][3], FNeg(CallMaxDisp))

\* a node on the fixed center and a node one span away, the estimate
\* strictly inside its clamp
C18_Witness ==
    /\ SolverResult
    /\ call.fixed_nodes # <<>> /\ FGt(CallSpan, FZero)
    /\ FLt(FromRat(1, 1000), CallMaxDisp) /\ FLt(CallMaxDisp, FromInt(1))
    /\ \E i \in 1..Len(node_coords) : FEq(CallDistToFixed(i), FZero)
    /\ \E i \in 1..Len(node_coords) :
          /\ FEq(CallDistToFixed(i), CallSpan)
          /\ FLt(ret.displacement_field[i][3], FZero)

\* C19: for every node of every mesh passed to simple_fea_solver the
\* z-displacement lies in [-max_disp, 0], so the returned max_displacement
\* never exceeds the clamped estimate max_disp and never exceeds 1.0.
C19_DisplacementBounded ==
    SolverResult =>
        /\ \A i \in 1..Len(node_coords) :
              /\ FLe(FNeg(CallMaxDisp), ret.displacement_field[i][3])
              /\ FLe(ret.displacement_field[i][3], FZero)
        /\ FLe(ret.max_displacement, CallMaxDisp)
        /\ FLe(ret.max_displacement, FromInt(1))

\* C20: simple_fea_solver fails fast when called with an empty fixed_nodes
\* list or an empty load_nodes list: it raises or returns an error result
\* (success false) and produces no stress or displacement field.
C20_FailsFastOnEmptySets ==
    (/\ Returned("simple_fea_solver")
     /\ call.fixed_nodes = <<>> \/ call.load_nodes = <<>>) =>
        \/ ret.k = "raise"
        \/ /\ ret.success = FALSE
           /\ ret.stress_field = <<>>
           /\ ret.displacement_field = <<>>

(***************************************************************************)
(* Properties of run_analysis (SpecRun).                                   *)
(***************************************************************************)
\* the call of run_analysis got as far as calling simple_fea_solver
RunPassed == Returned("run_analysis") /\ ret.passed # None

\* what the locator found on the mesh of the call
CallHoleNodes ==
    find_hole_nodes(node_coords, BracketHoles, BracketRadius,
                    [k |-> "tuple", z_min |-> ZMin(node_coords), z_max |-> ZMax(node_coords)])

\* the nodes the locator found for the listed fixed holes and for the load hole
FoundFixed == CollectFixed(CallHoleNodes, call.fix_holes, Len(call.fix_holes))
FoundLoad == CollectLoad(CallHoleNodes, call.load_hole)

\* q lists, in ascending order, exactly the nodes i with P(i)
ListsExactly(q, P(_)) ==
    /\ \A j \in 1..(Len(q) - 1) : q[j] < q[j + 1]
    /\ \A i \in 0..(Len(node_coords) - 1) : (\E j \in 1..Len(q) : q[j] = i) <=> P(i)

\* C21: for every non-empty mesh and every fix_holes and load_hole, the
\* fixed_nodes and load_nodes that run_analysis passes to simple_fea_solver
\* are both non-empty: an empty fixed set is replaced by the nodes with
\* z < z_min + 1, an empty load set by the nodes with z > z_max - 1, and a
\* non-empty set found by the locator is passed unchanged.
C21_NodeSetsNeverEmpty ==
    RunPassed =>
        /\ Len(ret.passed.fixed_nodes) > 0
        /\ Len(ret.passed.load_nodes) > 0
        /\ IF FoundFixed # <<>> THEN ret.passed.fixed_nodes = FoundFixed
           ELSE ListsExactly(ret.passed.fixed_nodes,
                             LAMBDA i : At(node_coords, i)[3] < ZMin(node_coords) + 1)
        /\ IF FoundLoad # <<>> THEN ret.passed.load_nodes = FoundLoad
           ELSE ListsExactly(ret.passed.load_nodes,
                             LAMBDA i : At(node_coords, i)[3] > ZMax(node_coords) - 1)

\* a hole out of range is listed, the fixed set fell back to the bottom nodes,
\* which are not all the nodes, and the load set is what the locator found
C21_Witness ==
    /\ RunPassed
    /\ call.fix_holes = <<3>>
    /\ FoundFixed = <<>>
    /\ FoundLoad # <<>>
    /\ ret.passed.load_nodes = FoundLoad
    /\ Len(ret.passed.fixed_nodes) < Len(node_coords)

(***************************************************************************)
(* Properties of the material lookup (SpecEntry).                          *)
(***************************************************************************)
\* C22: a material name that is not a key of the registry is fatal, without
\* retry and before any other work: run_analysis raises before it loads or
\* meshes the model, get_material raises, and run_structural_analysis
\* returns success false with the error set, having called neither the
\* mesher nor the solver; a name that is a key gets the registry's record.
C22_UnknownMaterialIsFatal ==
    /\ Returned("run_analysis") /\ call.material_name \notin DOMAIN FEA_MATERIALS =>
          ret.value = Raise("ValueError") /\ ret.calls = <<>>
    /\ Returned("get_material") =>
          IF call.name \in DOMAIN AGENT_MATERIALS
          THEN ret = AGENT_MATERIALS[call.name]
          ELSE ret = Raise("ValueError")
    /\ Returned("run_structural_analysis") /\ call.material \notin DOMAIN AGENT_MATERIALS =>
          /\ ret.calls = <<"get_material">>
          /\ ret.result.success = FALSE
          /\ ret.result.error # None
          /\ ret.result.error.s # ""
    /\ Returned("run_structural_analysis") /\ call.material \in DOMAIN AGENT_MATERIALS =>
          /\ ret.calls[1] = "get_material"
          /\ Len(ret.calls) > 1
          /\ ret.result # Raise("OSError") /\ ret.result.success =>
                ret.result.material = AGENT_MATERIALS[call.material].name

\* a name of the other registry, with a mesher and a solver that would have
\* worked: the agent's call has returned its failure
C22_Witness ==
    /\ Returned("run_structural_analysis")
    /\ call.material = "aluminum"
    /\ call.gmsh.k = "exit" /\ call.gmsh.returncode = 0
    /\ call.ccx.k = "exit" /\ call.ccx.returncode = 0
    /\ ret.result.success = FALSE

(***************************************************************************)
(* More properties of simple_fea_solver (SpecMesh).                        *)
(***************************************************************************)
\* a float that is a number or an infinity
Defined(x) == x.k # "nan"

\* C23: for a mesh of zero cross-sectional area, for zero span and for zero
\* force, simple_fea_solver returns a result whose stress_field entries,
\* max_stress, max_displacement and safety_factor are each a defined number
\* or +infinity, never NaN.
C23_EdgeCasesDefined ==
    /\ Returned("simple_fea_solver") /\ Len(node_coords) > 0 => ret.k = "FEAResult"
    /\ SolverResult /\ (FEq(CallArea, FZero) \/ FEq(CallSpan, FZero) \/ FEq(CallForce, FZero)) =>
          /\ \A i \in 1..Len(ret.stress_field) : Defined(ret.stress_field[i])
          /\ Defined(ret.max_stress)
          /\ Defined(ret.max_displacement)
          /\ Defined(ret.safety_factor)

\* C24: every result of simple_fea_solver has success true, mesh_nodes = N,
\* mesh_elements = M, a stress_field of length N and a displacement_field of
\* N three-component vectors, for every N >= 1 and every choice of node sets.
C24_ResultShape ==
    /\ Returned("simple_fea_solver") /\ Len(node_coords) >= 1 => ret.k = "FEAResult"
    /\ SolverResult =>
          /\ ret.success = TRUE
          /\ ret.mesh_nodes = Len(node_coords)
          /\ ret.mesh_elements = Len(elements)
          /\ Len(ret.stress_field) = Len(node_coords)
          /\ Len(ret.displacement_field) = Len(node_coords)
          /\ \A i \in 1..Len(ret.displacement_field) : Len(ret.displacement_field[i]) = 3

\* a result on four nodes and two elements, for empty node sets
C24_Witness ==
    /\ SolverResult
    /\ Len(node_coords) = 4 /\ Len(elements) = 2
    /\ call.fixed_nodes = <<>> /\ call.load_nodes = <<>>
    /\ Len(ret.stress_field) = 4

(***************************************************************************)
(* Properties of run_structural_analysis (SpecAgent).                      *)
(***************************************************************************)
\* the call of run_structural_analysis has returned an AnalysisResult
AgentResult == Returned("run_structural_analysis") /\ ret.result.k = "AnalysisResult"

\* the stages in the order of the pipeline
Stages == <<"get_material", "generate_mesh", "generate_calculix_input", "run_calculix", "interpret_results">>

Called(stage) == \E j \in 1..Len(ret.calls) : ret.calls[j] = stage

\* what each stage of the call met
MaterialKnown == call.material \in DOMAIN AGENT_MATERIALS
MeshOk == call.gmsh.k = "exit" /\ call.gmsh.returncode = 0
InputOk == call.inp = "written"
SolverOk ==
    /\ call.ccx.k = "exit" /\ call.ccx.returncode = 0
    /\ call.ccx.dat # None =>
          call.ccx.dat.max_stress # Unparsable /\ call.ccx.dat.max_displacement # Unparsable

\* C25: run_structural_analysis runs its stages in the order material lookup,
\* mesh generation, solver-input generation, solver run, interpretation, and
\* stops at the first failing stage: the solver is not started unless mesh
\* generation reported success, interpret_results is not called unless the
\* solver reported success, the result has success true only if every stage
\* succeeded, and every failure result carries a non-empty error and the
\* status "unknown".
C25_StagesInOrder ==
    Returned("run_structural_analysis") =>
        /\ ret.calls = SubSeq(Stages, 1, Len(ret.calls))
        /\ Called("generate_mesh") => MaterialKnown
        /\ Called("generate_calculix_input") => MeshOk
        /\ Called("run_calculix") => MeshOk /\ InputOk
        /\ Called("interpret_results") => SolverOk
        /\ ret.calls[Len(ret.calls)] =
              CASE ~MaterialKnown -> "get_material"
                [] ~MeshOk -> "generate_mesh"
                [] ~InputOk -> "generate_calculix_input"
                [] ~SolverOk -> "run_calculix"
                [] OTHER -> "interpret_results"
        /\ AgentResult /\ ret.result.success =>
              MaterialKnown /\ MeshOk /\ InputOk /\ SolverOk /\ ret.calls = Stages
        /\ AgentResult /\ ~ret.result.success =>
              /\ ret.result.error # None
              /\ ret.result.error.s # ""
              /\ ret.result.status = "unknown"

\* the mesher succeeded and the solver failed: the failure result carries the
\* mesh counts and interpret_results was not called
C25_Witness ==
    /\ AgentResult
    /\ MeshOk /\ ~SolverOk
    /\ ~ret.result.success
    /\ ret.result.mesh_nodes = 4
    /\ Called("run_calculix") /\ ~Called("interpret_results")

\* the solver's output held a maximum stress that parsed to a positive number
StressFound ==
    /\ call.ccx.k = "exit" /\ call.ccx.dat # None
    /\ call.ccx.dat.max_stress # None /\ call.ccx.dat.max_stress # Unparsable
    /\ Gt(call.ccx.dat.max_stress, Num(0, 1))

\* C28: run_structural_analysis returns success true with status PASS only
\* when the solver output yielded a positive maximum stress; an output with
\* no parsable maximum stress never gives a successful PASS result with an
\* infinite safety factor.
C28_PassNeedsStress ==
    AgentResult /\ ret.result.success /\ ret.result.status = "PASS" =>
        StressFound /\ ret.result.safety_factor # PosInf

(***************************************************************************)
(* Properties of the visualization hand-off (SpecRun).                     *)
(***************************************************************************)
\* C26: run_analysis with visualization enabled and the web viewer selected
\* hands the computed result to the viewer and then returns the FEAResult:
\* the call of view_fea_web passes only arguments that view_fea_web accepts,
\* carrying the scalar summaries, the fixed and load landmark positions and
\* the load direction and magnitude unchanged, so that a completed analysis
\* is never turned into an error by the hand-off.
C26_ViewerHandOff ==
    RunPassed /\ call.visualize /\ ~call.use_native_viewer =>
        /\ ret.value.k = "FEAResult"
        /\ ret.shown.k = "page"
        /\ ret.shown.shown[4] = ret.value.max_stress
        /\ ret.shown.shown[5] = ret.value.max_displacement
        /\ ret.shown.shown[6] = ToNum(ret.value.safety_factor)
        /\ ret.shown.shown[7] = FixedPositions(node_coords, call.fix_holes)
        /\ ret.shown.shown[8] = LoadPosition(node_coords, call.load_hole)
        /\ ret.shown.shown[9] = <<0, 0, -1>>
        /\ ret.shown.shown[10] = call.force_magnitude

(***************************************************************************)
(* Properties of the safety classes (SpecBands).                           *)
(***************************************************************************)
\* the class of the page that goes with a status of interpret_results
ClassOf(status) ==
    CASE status = "FAIL" -> "danger" [] status = "WARN" -> "warning" [] status = "PASS" -> "safe"

\* the label of the native window that goes with a status
LabelOf(status) == IF status = "PASS" THEN "SAFE" ELSE "WARNING"

\* C27: the safety class is the same everywhere it is shown: for every safety
\* factor (no displacement over the limit) the page of create_fea_viewer_html
\* says "danger" exactly when interpret_results says FAIL, "warning" exactly
\* when it says WARN and "safe" exactly when it says PASS, and the native
\* viewer's SAFE/WARNING label and the low-safety-factor note of run_analysis
\* agree with those bands.
C27_SameClassEverywhere ==
    /\ Returned("view_fea_web") /\ ret.k = "page" =>
          ret.safety_class = ClassOf(BandStatus(call.args[6]).status)
    /\ Returned("interpret_results") /\ ~OverLimit =>
          SafetyClass(ret.safety_factor) = ClassOf(ret.status)
    /\ Returned("visualize_stress_pyvista") =>
          ret.status = LabelOf(BandStatus(ToNum(call.result.safety_factor)).status)
    /\ Returned("run_analysis") /\ ret.value.k = "FEAResult" =>
          /\ ret.shown.status = LabelOf(BandStatus(ToNum(ret.value.safety_factor)).status)
          /\ BandStatus(ToNum(ret.value.safety_factor)).status = "FAIL" =>
                ret.note = "low safety factor"
          /\ BandStatus(ToNum(ret.value.safety_factor)).status = "PASS" =>
                ret.note # "low safety factor"

(***************************************************************************)
(* Properties of the jobs table (SpecApi).                                 *)
(***************************************************************************)
\* C29: after any sequence of /cad/generate requests, every job_id returned
\* in a CADGenerateResponse is a key of the jobs table, so that a following
\* GET /cad/job/{job_id} returns the stored result and not 404; GET /cad/job
\* and /cad/download answer 404 for every id that was never stored.
C29_ReturnedJobIsStored ==
    /\ Returned("generate_cad") /\ ret.k = "CADGenerateResponse" =>
          jobs[ret.job_id] # None /\ get_job(jobs, ret.job_id) # HTTPException(404)
    /\ Returned("get_job") /\ jobs[call.job_id] = None => ret = HTTPException(404)
    /\ Returned("get_job") /\ jobs[call.job_id] # None => ret = jobs[call.job_id]
    /\ Returned("download_output") /\ jobs[call.job_id] = None => ret = HTTPException(404)

(***************************************************************************)
(* The order of the aggregates of calculate_mesh_quality (SpecQuality).    *)
(***************************************************************************)
\* element i has an edge of length <= 1e-10
HasTinyEdge(i) == \E j \in 1..3 : FLe(ElementEdges(CallPoints, elements[i])[j], Tiny)

RECURSIVE WithoutTiny(_)
\* the first n elements without those that have an edge <= 1e-10
WithoutTiny(n) ==
    IF n = 0 THEN <<>>
    ELSE IF HasTinyEdge(n) THEN WithoutTiny(n - 1)
    ELSE Append(WithoutTiny(n - 1), elements[n])

\* the aggregate fields of a MeshQuality
Aggregates ==
    {"min_aspect_ratio", "max_aspect_ratio", "avg_aspect_ratio",
     "min_angle", "max_angle", "avg_angle", "quality_score"}

\* elements with an edge <= 1e-10 are counted but add to no aggregate
TinyEdgesAddNothing ==
    /\ ret.n_nodes = Len(node_coords)
    /\ ret.n_elements = Len(elements)
    /\ \A f \in Aggregates :
          ret[f] = calculate_mesh_quality(CallPoints, WithoutTiny(Len(elements)))[f]

\* the extremes are ordered, and no aspect ratio is below 1
ExtremesOrdered ==
    /\ FLe(FromInt(1), ret.min_aspect_ratio)
    /\ FLe(ret.min_aspect_ratio, ret.max_aspect_ratio)
    /\ FLe(ret.min_angle, ret.max_angle)

\* the rounding a mean of n floats can carry: n units in the last place
MeanSlack(n) == FDiv(FromInt(n), FromInt(2^(FBits - 1)))

\* lo <= x <= hi up to the rounding of a mean of n floats
Between(lo, x, hi, n) ==
    /\ FLe(FMul(lo, FSub(FromInt(1), MeanSlack(n))), x)
    /\ FLe(x, FMul(hi, FAdd(FromInt(1), MeanSlack(n))))

\* C30 as stated: every MeshQuality returned by calculate_mesh_quality has
\* 1 <= min_aspect_ratio <= avg_aspect_ratio <= max_aspect_ratio and
\* min_angle <= avg_angle <= max_angle, an element with an edge <= 1e-10
\* contributes to none of the aggregates, and n_nodes and n_elements are the
\* sizes of the input arrays.
C30_AsStated ==
    Returned("calculate_mesh_quality") =>
        /\ ExtremesOrdered
        /\ FLe(ret.min_aspect_ratio, ret.avg_aspect_ratio)
        /\ FLe(ret.avg_aspect_ratio, ret.max_aspect_ratio)
        /\ FLe(ret.min_angle, ret.avg_angle)
        /\ FLe(ret.avg_angle, ret.max_angle)
        /\ TinyEdgesAddNothing

\* C30: every MeshQuality returned by calculate_mesh_quality has
\* 1 <= min_aspect_ratio <= max_aspect_ratio and min_angle <= max_angle;
\* avg_aspect_ratio lies between the two aspect ratios, and avg_angle between
\* min_angle and max_angle, up to the rounding of the mean (one unit in the
\* last place per element averaged); an element with an edge <= 1e-10
\* contributes to none of the aggregates, and n_nodes and n_elements are the
\* sizes of the input arrays.
C30_AggregatesOrdered ==
    Returned("calculate_mesh_quality") =>
        /\ ExtremesOrdered
        /\ Between(ret.min_aspect_ratio, ret.avg_aspect_ratio, ret.max_aspect_ratio, Len(elements))
        /\ Between(ret.min_angle, ret.avg_angle, ret.max_angle, Len(elements))
        /\ TinyEdgesAddNothing

\* two different triangles and a flat element between them: the extremes
\* differ, and the mean is strictly between them
C30_Witness ==
    /\ Returned("calculate_mesh_quality")
    /\ Len(elements) = 3
    /\ HasTinyEdge(2) /\ ~HasTinyEdge(1) /\ ~HasTinyEdge(3)
    /\ FLt(ret.min_aspect_ratio, ret.avg_aspect_ratio)
    /\ FLt(ret.avg_aspect_ratio, ret.max_aspect_ratio)
    /\ FLt(ret.min_angle, ret.avg_angle)

====
